---- MODULE Spec2Model ----
(***************************************************************************)
(* ZLCoro: a C++20 coroutine runtime.  The module models four parts of it  *)
(* as state machines over one set of variables:                            *)
(*   SpecTask   Task<T> frames, co_await hand-off and sync_wait            *)
(*   SpecPool   ThreadPool (submit / worker_thread / shutdown), async_run  *)
(*   SpecTimer  EventLoop::run with its timer store                        *)
(*   SpecIO     EventLoop::run with EpollPoller and AsyncSocket awaiters   *)
(* Every specification constrains all variables; the variables of the      *)
(* parts it does not exercise stay at their initial values.                *)
(***************************************************************************)
EXTENDS Integers, Sequences, FiniteSets, TLC

\* ------------------------------------------------------------------ bounds
\* Number of Task frames of the await chain (frame f awaits frame f + 1).
MaxFrames == 3
\* sync_wait calls over a run.
MaxSyncWaits == 2
\* Observations of one Task's result over a run.
MaxSeen == 2
\* Task move constructions and move assignments over a run.
MaxMoves == 2

\* ------------------------------------------------------------ Task state
VARIABLES
    body,           \* per frame: the coroutine body (fixed at creation)
    pc,             \* per frame: suspension point of the frame
    cur,            \* the frame the thread is executing, 0 = the caller
    continuation_,  \* TaskPromiseBase::continuation_ (0 = null handle)
    has_value_,     \* TaskPromise::has_value_
    value_,         \* TaskPromise::value_ (0 = a moved-from value)
    exception_,     \* TaskPromise::exception_ (0 = null exception_ptr)
    got,            \* per frame: what its co_await expression produced
    resumes,        \* per frame: resumptions from its co_await suspension
    resumer,        \* per frame: who resumed it from its co_await suspension
    sw,             \* the frame sync_wait is driving, 0 = none
    swVia,          \* who called that sync_wait: the caller or async_run
    swResult,       \* per frame: what the last sync_wait on it returned
    asyncFuture,    \* per frame: what async_run's runner put in the promise
    swCalls,        \* sync_wait calls begun so far
    swResumes,      \* resume() calls made by the sync_wait in progress
    depth,          \* resume() calls active on the thread's stack
    produced,       \* per frame: the outcome its body ended with
    writes,         \* per frame: return_value / unhandled_exception calls
    escaped,        \* an exception left a resume() call
    seenCount,      \* per frame: observations of its result
    firstSeen,      \* per frame: what the first observation yielded
    lastSeen,       \* per frame: what the latest observation yielded
    bodyStarted,    \* per frame: the body's first statement has run
    firstResumedBy, \* per frame: who resumed it from initial_suspend
    coro_,          \* per Task object: Task::coro_ (0 = null handle)
    ostate,         \* per Task object: none (not constructed), live, gone
    movedFrom,      \* per Task object: it was last the source of a move
    destroys,       \* per frame: coroutine_handle::destroy calls
    nmoves,         \* move constructions and assignments so far
    nullUse         \* per Task object: outcome of using it with coro_ null

\* The frames and what drives them.
frameVars == <<body, pc, cur, continuation_, has_value_, value_, exception_,
               got, resumes, resumer, sw, swVia, swResult, asyncFuture,
               swCalls, swResumes, depth, produced, writes, escaped,
               seenCount, firstSeen, lastSeen, bodyStarted, firstResumedBy>>

\* The Task objects owning the frames.
ownVars == <<coro_, ostate, movedFrom, destroys, nmoves, nullUse>>

taskVars == <<frameVars, ownVars>>

\* ------------------------------------------------------- ThreadPool state
VARIABLES
    stop_,          \* ThreadPool::stop_
    task_queue_,    \* ThreadPool::task_queue_: closure ids, front first
    wpc,            \* per worker: position in worker_thread / the closure
    wtask,          \* per worker: the closure held in `task`, 0 = nullopt
    nsub,           \* closures handed to submit so far (ids are 1..nsub)
    payload,        \* per closure: the anchor its runner captures, 0 = plain
    afterStop,      \* per closure: stop_ was set when submit was called
    runs,           \* per closure: times a worker invoked it
    startedBy,      \* per closure: the worker that invoked it
    finishedBy,     \* per closure: the worker on which it returned
    started,        \* closure ids in the order workers took them
    sdpc,           \* the thread calling shutdown(): idle, joining, returned
    sdcalls,        \* shutdown() calls made so far
    atStop,         \* closures queued or running when stop_ was set
    nanchor,        \* async_run calls so far (anchors are 1..nanchor)
    executed,       \* per anchor: State::executed
    future,         \* per anchor: the shared state behind the std::future
    promiseSets,    \* per anchor: successful set_value / set_exception calls
    bodyRuns,       \* per anchor: times the Task body was started
    bodyThrows,     \* per anchor: the Task body raises instead of returning
    taskpc,         \* per anchor: the Task frame: initial, running, final
    refs,           \* per anchor: closures holding the shared_ptr<State>
    casFails,       \* per anchor: runner invocations turned away by executed
    detached,       \* per anchor: made by fire_and_forget (shared_ptr<Task>)
    frees,          \* per anchor: times the anchor's Task frame was destroyed
    cthrows,        \* per closure: the plain closure raises when invoked
    invoked         \* closure ids in the order their invocation began

poolVars == <<stop_, task_queue_, wpc, wtask, nsub, payload, afterStop, runs,
              startedBy, finishedBy, started, sdpc, sdcalls, atStop, nanchor,
              executed, future, promiseSets, bodyRuns, bodyThrows, taskpc,
              refs, casFails, detached, frees, cthrows, invoked>>

closureVars == <<cthrows>>
invokeVars == <<invoked>>

ffVars == <<detached, frees>>

\* ------------------------------------------------------- EventLoop bounds
\* Timers registered over a run (ids are 0..MaxTimers - 1).
MaxTimers == 3
\* The clock runs from 0 to MaxTime, in ticks.
MaxTime == 2
\* add_timer delays, in ticks: 0..MaxDelay.
MaxDelay == 2

\* -------------------------------------------------------- EventLoop state
VARIABLES
    running_,         \* EventLoop::running_
    lpc,              \* the thread in run(): where it is in the loop
    ready_queue_,     \* EventLoop::ready_queue_
    local_queue,      \* process_ready_queue: local_queue, not yet resumed
    timers_,          \* EventLoop::timers_: records [id, expire_time]
    next_timer_id_,   \* EventLoop::next_timer_id_
    now,              \* std::chrono::steady_clock::now(), in ticks
    tnow,             \* process_timers: its local `now`
    expired_callbacks,\* process_timers: expired_callbacks, not yet called
    next_timeout,     \* run: next_timeout, what process_timers returned
    fired,            \* timer ids in the order their callbacks were called
    deadline,         \* per timer id: the expire_time it was registered with
    cancelled         \* timer ids handed to cancel_timer while registered

loopVars == <<running_, lpc, ready_queue_, local_queue, timers_,
              next_timer_id_, now, tnow, expired_callbacks, next_timeout,
              fired, deadline, cancelled>>

\* ------------------------------------------------------ socket I/O bounds
\* File descriptors of sockets: 1..MaxFd.
MaxFd == 2
\* Task frames of socket operations (AsyncSocket::read, accept, write).
MaxIOFrames == 2
\* Readiness changes the kernel sees over a run.
MaxEvents == 1
\* Readiness changes on a descriptor after its continuation was delivered.
MaxLateEvents == 1

\* ------------------------------------------------------- socket I/O state
VARIABLES
    handlers_,      \* EpollPoller::handlers_: records [fd, coro, events]
    level,          \* per fd: the conditions that hold now (in, out, hup)
    rdlist,         \* per fd: the kernel has it on the epoll ready list
    sockOpen,       \* per fd: the AsyncSocket owning it is open
    nev,            \* readiness changes so far
    kind,           \* per frame: "read" (read, accept) or "write"
    sockfd,         \* per frame: the descriptor of its socket
    driver,         \* per frame: started by async_run or Scheduler::schedule
    fpos,           \* per frame: the suspension point the frame records
    inside,         \* per frame and thread: the point it was resumed from
    workerResumedWaiting, \* per frame: a worker resumed it at its awaiter
    raced,          \* per frame: two threads were inside it at once
    destroyedSuspended,   \* per frame: destroyed while at its awaiter
    resumedAfterDestroy,  \* per frame: resumed after it was destroyed
    lastReg,        \* per fd: the arguments of the last registration
    replaced,       \* per fd: a registration replaced another continuation
    delivered,      \* per fd: times poll pushed the continuation of the
                    \* descriptor's current registration
    polledEvents,   \* per fd: the conditions the last poll reported for it
    polled          \* the (fd, coro) pairs the last poll made ready, in order

ioVars == <<handlers_, level, rdlist, sockOpen, nev, kind, sockfd, driver,
            fpos, inside, workerResumedWaiting, raced, destroyedSuspended,
            resumedAfterDestroy, lastReg, replaced, delivered, polledEvents, polled>>

\* What the last poll reported and made ready.
pollVars == <<polledEvents, polled>>

\* ------------------------------------------------------ AsyncSocket bounds
\* AsyncSocket objects of a run.
MaxSocks == 3

\* ------------------------------------------------------- AsyncSocket state
VARIABLES
    fd_,            \* per AsyncSocket object: AsyncSocket::fd_, 0 for -1
    sstate,         \* per AsyncSocket object: none, live, gone (destroyed)
    smoved,         \* per AsyncSocket object: it was the source of a move
    fdOpen,         \* per descriptor: open in the kernel's table
    closedTwice,    \* per descriptor: ::close was called on it while not open
    closedRegistered \* per descriptor: ::close was called on it while it
                    \* still had a handler in the poller

sockVars == <<fd_, sstate, smoved, fdOpen, closedTwice, closedRegistered>>

\* -------------------------------------------------------- Generator bounds
\* co_yield statements of a generator body.
MaxYields == 3

\* --------------------------------------------------------- Generator state
VARIABLES
    gkinds,         \* the body: per co_yield, "l" (an lvalue) or "r" (an rvalue)
    gthrows,        \* the body ends by raising instead of returning
    gmoveThrows,    \* T's move constructor can raise
    gpc,            \* the frame: none, initial, yielded, final, destroyed
    gidx,           \* co_yields completed so far
    value_ptr_,     \* promise_type::value_ptr_: null, frame (an lvalue), slot
    slotLive,       \* stored_value_ holds a constructed object
    slotVal,        \* the value of the object in stored_value_
    frameVal,       \* the value of the yielded lvalue in the frame
    gexception_,    \* promise_type::exception_ is set
    gconstructs,    \* objects constructed in stored_value_ so far
    gdestroys,      \* destroy_at calls on stored_value_ so far
    deadDestroy,    \* destroy_at was called on stored_value_ with no object
    ran,            \* parts of the body run so far (each up to a co_yield or
                    \* to the end)
    advances,       \* begin() and operator++ calls that resumed the frame
    it,             \* the consumer's iterator: none, handle
    fresh,          \* the consumer has not dereferenced since the last advance
    out,            \* the values the consumer read, in order
    lastDeref,      \* the last operator*: none, value, error
    derefOn,        \* what it was applied to: none, end, finished, live
    lastRead,       \* the value it read through value_ptr_, 0 if none
    lastRaised      \* the last begin() / operator++ raised the body's error

genVars == <<gkinds, gthrows, gmoveThrows, gpc, gidx, value_ptr_, slotLive,
             slotVal, frameVal, gexception_, gconstructs, gdestroys,
             deadDestroy, ran, advances, it, fresh, out, lastDeref,
             derefOn, lastRead, lastRaised>>

\* ------------------------------------------- handler map access state
VARIABLES
    mpc,            \* per thread: where it is in an EpollPoller call: idle,
                    \* has, store, erase, find
    marg            \* per thread: the descriptor of the call, 0 if none

mapVars == <<mpc, marg>>

\* --------------------------------------------------- schedule() callers
\* schedule() calls made by threads other than the Reactor's.
MaxSchedules == 3

VARIABLES
    enqLog          \* every continuation passed to schedule(), in the order
                    \* of the push_back under the mutex

drainVars == <<enqLog>>

\* ------------------------------------------- sync_wait on a pool worker
VARIABLES
    checked,        \* per frame: the worker in sync_wait has read done() as
                    \* false and not yet called resume()
    resumedDone     \* per frame: resume() was called on it at its final
                    \* suspension

resumeVars == <<checked, resumedDone>>

\* ------------------------------------------- AsyncSocket::write cursor
\* The bytes of one write(data, len) call, and the room of the socket's send
\* buffer.
MaxWriteLen == 4
MaxSpace == 2

VARIABLES
    wlen,           \* len of the call
    total_written,  \* the cursor of the loop
    wrpc,           \* none, loop (at the while test), awaiting (suspended in
                    \* WriteAwaiter), returned, thrown
    space,          \* bytes the send buffer can take
    accepted,       \* bytes the kernel took from this call, in all
    lastResult,     \* of the last ::write: none, ok, again, error
    wresult,        \* the value of co_return
    everBlocked     \* a ::write of this call gave EAGAIN

writeVars == <<wlen, total_written, wrpc, space, accepted, lastResult,
               wresult, everBlocked>>

\* ------------------------------------------------- callers of stop()
MaxStopCalls == 2

VARIABLES
    stopCalls       \* the number of stop() calls made so far

stopVars == <<stopCalls>>

\* ------------------------------------------- Generator::begin() again
VARIABLES
    resumedFinished \* handle_.resume() was called on a generator frame at
                    \* its final suspension

againVars == <<resumedFinished>>

vars == <<taskVars, poolVars, loopVars, ioVars, sockVars, genVars, mapVars,
          drainVars, resumeVars, writeVars, stopVars, againVars>>

\* What the actions of one part leave alone: the other parts.
notTask == <<poolVars, loopVars, ioVars, sockVars, genVars, mapVars,
             drainVars, resumeVars, writeVars, stopVars, againVars>>
notPool == <<taskVars, loopVars, ioVars, sockVars, genVars, mapVars,
             drainVars, resumeVars, writeVars, stopVars, againVars>>
notLoop == <<taskVars, poolVars, ioVars, sockVars, genVars, mapVars,
             drainVars, resumeVars, writeVars, stopVars, againVars>>
notLoopIO == <<taskVars, poolVars, sockVars, genVars, mapVars, drainVars,
               resumeVars, writeVars, stopVars, againVars>>

Frames == 1..MaxFrames

\* Task objects: object f is the one the coroutine function of frame f
\* returns; object 0 is a spare one that only moves construct.
TaskObjs == 0..MaxFrames

\* The Task object a frame's body awaits: the next one of the chain.
Child(f) == f + 1

\* The result type of a Task: "int" (moving it is copying it), "owning" (a
\* moved-from value is empty: std::string, std::unique_ptr) or "void".
Types == {"int", "owning", "void"}

\* A body: whether it awaits the child Task, whether the co_await is inside
\* a try/catch, whether its last statement is co_return or throw, and the
\* result type of its Task.
Bodies(f) ==
    [awaits : IF f < MaxFrames THEN BOOLEAN ELSE {FALSE},
     catches : BOOLEAN,
     throws : BOOLEAN,
     type : Types]

NoOutcome == [kind |-> "none", v |-> 0]
ValueOutcome(v) == [kind |-> "value", v |-> v]
ErrorOutcome(e) == [kind |-> "error", v |-> e]

\* std::coroutine_handle::done(): the frame is at its final suspension.
Done(f) == pc[f] = "final"

\* TaskPromise<T>::result(): rethrows the stored exception, else the value.
Result(f) ==
    IF exception_[f] # 0 THEN ErrorOutcome(exception_[f])
    ELSE IF has_value_[f] THEN ValueOutcome(value_[f])
    ELSE NoOutcome

\* std::move(promise).result() taken by value (T x = co_await task;
\* T result = task.sync_wait();): the value is moved out of the slot.
ValueAfterMove(f) ==
    IF body[f].type = "owning" /\ exception_[f] = 0 /\ has_value_[f]
    THEN [value_ EXCEPT ![f] = 0]
    ELSE value_

\* The value the body returns: a leaf returns its own number, an awaiting
\* body returns what it awaited plus ten (nothing, an empty value or a
\* caught error count as zero).
ReturnValue(f) ==
    IF ~body[f].awaits THEN f
    ELSE IF got[f].kind = "value" THEN got[f].v + 10
    ELSE 0

\* An observation of frame f's result that yielded o.
Seen(f, o) ==
    /\ seenCount' = [seenCount EXCEPT ![f] = @ + 1]
    /\ firstSeen' = [firstSeen EXCEPT ![f] = IF seenCount[f] = 0 THEN o ELSE @]
    /\ lastSeen' = [lastSeen EXCEPT ![f] = o]

\* What using a Task whose coro_ is null can do: coro_.done() and
\* coro_.promise() on a null handle are undefined (a fault, or a read of
\* whatever is at the address).
NullOutcomes == {"fault", "garbage"}

\* Nothing is driving any frame and nothing has been observed.
TaskCreated ==
    /\ cur = 0
    /\ continuation_ = [f \in Frames |-> 0]
    /\ has_value_ = [f \in Frames |-> FALSE]
    /\ value_ = [f \in Frames |-> 0]
    /\ exception_ = [f \in Frames |-> 0]
    /\ got = [f \in Frames |-> NoOutcome]
    /\ resumes = [f \in Frames |-> 0]
    /\ resumer = [f \in Frames |-> "none"]
    /\ sw = 0
    /\ swVia = "none"
    /\ swResult = [f \in Frames |-> NoOutcome]
    /\ asyncFuture = [f \in Frames |-> NoOutcome]
    /\ swCalls = 0
    /\ swResumes = 0
    /\ depth = 0
    /\ produced = [f \in Frames |-> NoOutcome]
    /\ writes = [f \in Frames |-> 0]
    /\ escaped = FALSE
    /\ seenCount = [f \in Frames |-> 0]
    /\ firstSeen = [f \in Frames |-> NoOutcome]
    /\ lastSeen = [f \in Frames |-> NoOutcome]
    /\ bodyStarted = [f \in Frames |-> FALSE]
    /\ firstResumedBy = [f \in Frames |-> "none"]
    /\ movedFrom = [t \in TaskObjs |-> FALSE]
    /\ destroys = [f \in Frames |-> 0]
    /\ nmoves = 0
    /\ nullUse = [t \in TaskObjs |-> "none"]

\* Every coroutine function has been called: frame f is initially suspended
\* and owned by Task object f.
TaskOwned ==
    /\ pc = [f \in Frames |-> "initial"]
    /\ coro_ = [t \in TaskObjs |-> t]
    /\ ostate = [t \in TaskObjs |-> IF t = 0 THEN "none" ELSE "live"]

\* The frames with any bodies.
TaskInit ==
    /\ body \in [Frames -> UNION {Bodies(f) : f \in Frames}]
    /\ \A f \in Frames : body[f] \in Bodies(f)
    /\ \A f \in Frames : body[f].catches => body[f].awaits
    /\ TaskCreated
    /\ TaskOwned

\* The frames as they stay while another part of the runtime is exercised.
TaskIdle ==
    /\ body = [f \in Frames |->
                 [awaits |-> FALSE, catches |-> FALSE, throws |-> FALSE,
                  type |-> "int"]]
    /\ TaskCreated
    /\ TaskOwned

\* No coroutine function has been called yet; the bodies they will run
\* return an int and may await the next Task.
TaskNotCreated ==
    /\ body \in [Frames -> UNION {Bodies(f) : f \in Frames}]
    /\ \A f \in Frames :
          /\ body[f] \in Bodies(f)
          /\ ~body[f].catches /\ ~body[f].throws /\ body[f].type = "int"
    /\ TaskCreated
    /\ pc = [f \in Frames |-> "none"]
    /\ coro_ = [t \in TaskObjs |-> 0]
    /\ ostate = [t \in TaskObjs |-> "none"]

\* FinalAwaiter::await_suspend: the handle control is transferred to.
FinalNoop(f) == 0
FinalTransfer(f) ==
    IF continuation_[f] # 0 THEN continuation_[f] ELSE 0

\* TaskPromiseBase::set_continuation as called by Task::Awaiter::await_suspend.
SetContinuationDropped(c, f) == continuation_
SetContinuation(c, f) == [continuation_ EXCEPT ![c] = f]

\* The resume() calls on the stack after an await_suspend that returns the
\* handle to run next (symmetric transfer: the running frame is left and the
\* next one entered without a nested resume() call).
AwaitDepthNested(d) == d + 1
AwaitDepth(d) == d
FinalDepth(d) == d

\* The frame reaches final_suspend: it is done, and control goes to the
\* stored continuation (symmetric transfer) or, with the no-op handle, back
\* to whoever called resume().
FinalSuspend(f) ==
    LET next == FinalTransfer(f) IN
    /\ pc' = [pc EXCEPT ![f] = "final"]
    /\ cur' = next
    /\ depth' = IF next # 0 THEN FinalDepth(depth)
                ELSE IF depth > 0 THEN depth - 1 ELSE 0
    /\ IF next # 0
       THEN /\ resumes' = [resumes EXCEPT ![next] = @ + 1]
            /\ resumer' = [resumer EXCEPT ![next] = "final_suspend"]
       ELSE UNCHANGED <<resumes, resumer>>

\* return_value: has_value_ after the value was constructed in the slot.
StoreValueSkipped(f) == has_value_
StoreValue(f) == [has_value_ EXCEPT ![f] = TRUE]

\* unhandled_exception: exception_ = std::current_exception(), and the
\* function returns (it does not rethrow).
StoreExceptionDropped(f, e) == exception_
StoreException(f, e) == [exception_ EXCEPT ![f] = e]
UnhandledRethrows == FALSE

\* co_return v: return_value stores the value (co_return; in a Task<void>:
\* return_void stores nothing), then final_suspend.
CoReturn(f) ==
    /\ IF body[f].type = "void"
       THEN /\ UNCHANGED <<value_, has_value_, writes>>
            /\ produced' = [produced EXCEPT ![f] = NoOutcome]
       ELSE /\ value_' = [value_ EXCEPT ![f] = ReturnValue(f)]
            /\ has_value_' = StoreValue(f)
            /\ writes' = [writes EXCEPT ![f] = @ + 1]
            /\ produced' = [produced EXCEPT ![f] = ValueOutcome(ReturnValue(f))]
    /\ UNCHANGED <<exception_, escaped>>
    /\ FinalSuspend(f)

\* An exception leaves the body: unhandled_exception stores it, then
\* final_suspend.
Unhandled(f, e) ==
    /\ exception_' = StoreException(f, e)
    /\ writes' = [writes EXCEPT ![f] = @ + 1]
    /\ produced' = [produced EXCEPT ![f] = ErrorOutcome(e)]
    /\ escaped' = (escaped \/ UnhandledRethrows)
    /\ UNCHANGED <<value_, has_value_>>
    /\ FinalSuspend(f)

\* The body's last statement, reached with the co_await (if any) behind it.
Finish(f) ==
    IF body[f].throws THEN Unhandled(f, f) ELSE CoReturn(f)

\* The running frame starts its body (resumed from initial_suspend) and, if
\* the body awaits, evaluates co_await on the child Task object:
\* Awaiter::await_ready (!coro_ || coro_.done()), await_suspend.
RunBody(f) ==
    /\ cur = f
    /\ pc[f] = "initial"
    /\ bodyStarted' = [bodyStarted EXCEPT ![f] = TRUE]
    /\ IF body[f].awaits
       THEN LET h == coro_[Child(f)] IN
            /\ ostate[Child(f)] = "live"
            /\ IF h = 0 \/ Done(h)
               THEN \* await_ready: no suspension, await_resume follows
                    /\ pc' = [pc EXCEPT ![f] = "resumed"]
                    /\ UNCHANGED <<cur, continuation_, depth, firstResumedBy>>
               ELSE \* await_suspend: store the continuation, transfer
                    /\ continuation_' = SetContinuation(h, f)
                    /\ pc' = [pc EXCEPT ![f] = "awaiting"]
                    /\ cur' = h
                    /\ depth' = AwaitDepth(depth)
                    /\ firstResumedBy' =
                           [firstResumedBy EXCEPT ![h] =
                               IF pc[h] = "initial" THEN "await" ELSE @]
       ELSE /\ pc' = [pc EXCEPT ![f] = "last"]
            /\ UNCHANGED <<cur, continuation_, depth, firstResumedBy>>
    /\ UNCHANGED <<body, has_value_, value_, exception_, got, resumes,
                   resumer, sw, swVia, swResult, asyncFuture, swCalls,
                   swResumes, produced, writes, escaped, seenCount,
                   firstSeen, lastSeen>>
    /\ UNCHANGED ownVars
    /\ UNCHANGED notTask

\* Task::Awaiter::await_resume in the resumed frame: the value of the child
\* moved out of its slot, or its error rethrown into the body.  With a null
\* coro_ the call coro_.promise() is undefined.
AwaitResume(f) ==
    /\ cur = f
    /\ pc[f] \in {"awaiting", "resumed"}
    /\ pc' = [pc EXCEPT ![f] = "last"]
    /\ LET h == coro_[Child(f)] IN
        IF h = 0
        THEN /\ \E o \in NullOutcomes :
                    nullUse' = [nullUse EXCEPT ![Child(f)] = o]
             /\ UNCHANGED <<got, value_, seenCount, firstSeen, lastSeen>>
        ELSE /\ got' = [got EXCEPT ![f] = Result(h)]
             /\ value_' = ValueAfterMove(h)
             /\ Seen(h, Result(h))
             /\ UNCHANGED nullUse
    /\ UNCHANGED <<body, cur, continuation_, has_value_, exception_, resumes,
                   resumer, sw, swVia, swResult, asyncFuture, swCalls,
                   swResumes, depth, produced, writes, escaped, bodyStarted,
                   firstResumedBy>>
    /\ UNCHANGED <<coro_, ostate, movedFrom, destroys, nmoves>>
    /\ UNCHANGED notTask

\* The rest of the body after the co_await: a rethrown error that the body
\* does not catch ends it, otherwise the last statement runs.
RunLast(f) ==
    /\ cur = f
    /\ pc[f] = "last"
    /\ IF got[f].kind = "error" /\ ~body[f].catches
       THEN Unhandled(f, got[f].v)
       ELSE Finish(f)
    /\ UNCHANGED <<body, continuation_, got, sw, swVia, swResult,
                   asyncFuture, swCalls, swResumes, seenCount, firstSeen,
                   lastSeen, bodyStarted, firstResumedBy>>
    /\ UNCHANGED ownVars
    /\ UNCHANGED notTask

\* Task::sync_wait is called on Task object t, by the caller or by
\* async_run's runner.  With a null coro_ the call coro_.done() is undefined.
SyncWaitBegin(t, via) ==
    /\ cur = 0
    /\ sw = 0
    /\ swCalls < MaxSyncWaits
    /\ ostate[t] = "live"
    /\ IF coro_[t] = 0
       THEN /\ \E o \in NullOutcomes : nullUse' = [nullUse EXCEPT ![t] = o]
            /\ swCalls' = swCalls + 1
            /\ UNCHANGED <<sw, swVia, swResumes>>
       ELSE /\ sw' = coro_[t]
            /\ swVia' = via
            /\ swCalls' = swCalls + 1
            /\ swResumes' = 0
            /\ UNCHANGED nullUse
    /\ UNCHANGED <<body, pc, cur, continuation_, has_value_, value_,
                   exception_, got, resumes, resumer, swResult, asyncFuture,
                   depth, produced, writes, escaped, seenCount, firstSeen,
                   lastSeen, bodyStarted, firstResumedBy>>
    /\ UNCHANGED <<coro_, ostate, movedFrom, destroys, nmoves>>
    /\ UNCHANGED notTask

\* sync_wait: if (!coro_.done()) coro_.resume(); while (!coro_.done()) ...
SyncWaitResume ==
    /\ cur = 0
    /\ sw # 0
    /\ ~Done(sw)
    /\ cur' = sw
    /\ depth' = depth + 1
    /\ swResumes' = IF swResumes < 2 THEN swResumes + 1 ELSE swResumes
    /\ firstResumedBy' =
           [firstResumedBy EXCEPT ![sw] =
               IF pc[sw] = "initial" THEN swVia ELSE @]
    /\ IF pc[sw] = "awaiting"
       THEN /\ resumes' = [resumes EXCEPT ![sw] = @ + 1]
            /\ resumer' = [resumer EXCEPT ![sw] = "sync_wait"]
       ELSE UNCHANGED <<resumes, resumer>>
    /\ UNCHANGED <<body, pc, continuation_, has_value_, value_, exception_,
                   got, sw, swVia, swResult, asyncFuture, swCalls, produced,
                   writes, escaped, seenCount, firstSeen, lastSeen,
                   bodyStarted>>
    /\ UNCHANGED ownVars
    /\ UNCHANGED notTask

\* sync_wait: the frame is done, return std::move(promise()).result(), which
\* the caller takes by value; async_run's runner hands it to set_value, or
\* the exception it raised to set_exception.
SyncWaitReturn ==
    /\ cur = 0
    /\ sw # 0
    /\ Done(sw)
    /\ swResult' = [swResult EXCEPT ![sw] = Result(sw)]
    /\ asyncFuture' = [asyncFuture EXCEPT ![sw] =
                          IF swVia = "async_run" THEN Result(sw) ELSE @]
    /\ value_' = ValueAfterMove(sw)
    /\ Seen(sw, Result(sw))
    /\ sw' = 0
    /\ swVia' = "none"
    /\ UNCHANGED <<body, pc, cur, continuation_, has_value_, exception_, got,
                   resumes, resumer, swCalls, swResumes, depth, produced,
                   writes, escaped, bodyStarted, firstResumedBy>>
    /\ UNCHANGED ownVars
    /\ UNCHANGED notTask

\* Task::result() on a completed Task: the & overload returns a reference to
\* the slot, the && overload moves the value out.
ReadResult(t, rvalue) ==
    /\ cur = 0
    /\ sw = 0
    /\ ostate[t] = "live"
    /\ coro_[t] # 0
    /\ Done(coro_[t])
    /\ seenCount[coro_[t]] < MaxSeen
    /\ Seen(coro_[t], Result(coro_[t]))
    /\ value_' = IF rvalue THEN ValueAfterMove(coro_[t]) ELSE value_
    /\ UNCHANGED <<body, pc, cur, continuation_, has_value_, exception_, got,
                   resumes, resumer, sw, swVia, swResult, asyncFuture,
                   swCalls, swResumes, depth, produced, writes, escaped,
                   bodyStarted, firstResumedBy>>
    /\ UNCHANGED ownVars
    /\ UNCHANGED notTask

\* initial_suspend returns std::suspend_always: its await_ready.
InitialSuspendNever == TRUE
InitialSuspendReady == FALSE

\* A coroutine function is called: the frame is allocated, the promise
\* constructed, get_return_object makes Task object t, and the frame stops
\* at initial_suspend.
CreateTask(t) ==
    /\ cur = 0
    /\ sw = 0
    /\ t \in Frames
    /\ ostate[t] = "none"
    /\ pc[t] = "none"
    /\ pc' = [pc EXCEPT ![t] = "initial"]
    /\ cur' = IF InitialSuspendReady THEN t ELSE 0
    /\ coro_' = [coro_ EXCEPT ![t] = t]
    /\ ostate' = [ostate EXCEPT ![t] = "live"]
    /\ UNCHANGED <<body, continuation_, has_value_, value_, exception_, got,
                   resumes, resumer, sw, swVia, swResult, asyncFuture,
                   swCalls, swResumes, depth, produced, writes, escaped,
                   seenCount, firstSeen, lastSeen, bodyStarted,
                   firstResumedBy>>
    /\ UNCHANGED <<movedFrom, destroys, nmoves, nullUse>>
    /\ UNCHANGED notTask

\* std::exchange(other.coro_, {}): what is left in the source of a move.
MoveSourceKept(src) == coro_[src]
MoveSource(src) == 0

\* A Task is handed only to code outside the coroutines that will await it:
\* object t holds a frame of its own position in the chain or a later one.
MayHold(t, h) == h = 0 \/ h >= t

\* coro_.destroy() on frame h.
DestroyFrame(h) ==
    /\ pc' = [pc EXCEPT ![h] = "destroyed"]
    /\ destroys' = [destroys EXCEPT ![h] = @ + 1]

\* Task(Task&& other): a new Task object dst takes the frame of src.
MoveConstruct(src, dst) ==
    /\ cur = 0
    /\ sw = 0
    /\ nmoves < MaxMoves
    /\ nmoves' = nmoves + 1
    /\ ostate[src] = "live"
    /\ ostate[dst] = "none"
    /\ MayHold(dst, coro_[src])
    /\ ostate' = [ostate EXCEPT ![dst] = "live"]
    /\ coro_' = [coro_ EXCEPT ![dst] = coro_[src], ![src] = MoveSource(src)]
    /\ movedFrom' = [movedFrom EXCEPT ![dst] = FALSE, ![src] = TRUE]
    /\ UNCHANGED <<pc, destroys, nullUse>>
    /\ UNCHANGED <<body, cur, continuation_, has_value_, value_, exception_,
                   got, resumes, resumer, sw, swVia, swResult, asyncFuture,
                   swCalls, swResumes, depth, produced, writes, escaped,
                   seenCount, firstSeen, lastSeen, bodyStarted,
                   firstResumedBy>>
    /\ UNCHANGED notTask

\* operator=(Task&& other): the target destroys the frame it owns, if any,
\* and takes the frame of src (nothing happens on self-assignment).
AssignDestroysNever(dst) == FALSE
AssignDestroys(dst) == coro_[dst] # 0

MoveAssign(dst, src) ==
    /\ cur = 0
    /\ sw = 0
    /\ nmoves < MaxMoves
    /\ nmoves' = nmoves + 1
    /\ ostate[src] = "live"
    /\ ostate[dst] = "live"
    /\ MayHold(dst, coro_[src])
    /\ IF dst = src
       THEN UNCHANGED <<coro_, movedFrom, pc, destroys>>
       ELSE /\ IF AssignDestroys(dst)
               THEN DestroyFrame(coro_[dst])
               ELSE UNCHANGED <<pc, destroys>>
            /\ coro_' = [coro_ EXCEPT ![dst] = coro_[src],
                                      ![src] = MoveSource(src)]
            /\ movedFrom' = [movedFrom EXCEPT ![dst] = FALSE, ![src] = TRUE]
    /\ UNCHANGED <<ostate, nullUse>>
    /\ UNCHANGED <<body, cur, continuation_, has_value_, value_, exception_,
                   got, resumes, resumer, sw, swVia, swResult, asyncFuture,
                   swCalls, swResumes, depth, produced, writes, escaped,
                   seenCount, firstSeen, lastSeen, bodyStarted,
                   firstResumedBy>>
    /\ UNCHANGED notTask

\* ~Task: if (coro_) coro_.destroy().
DestroyObj(t) ==
    /\ cur = 0
    /\ sw = 0
    /\ ostate[t] = "live"
    /\ ostate' = [ostate EXCEPT ![t] = "gone"]
    /\ IF coro_[t] # 0
       THEN DestroyFrame(coro_[t])
       ELSE UNCHANGED <<pc, destroys>>
    /\ UNCHANGED <<coro_, movedFrom, nmoves, nullUse>>
    /\ UNCHANGED <<body, cur, continuation_, has_value_, value_, exception_,
                   got, resumes, resumer, sw, swVia, swResult, asyncFuture,
                   swCalls, swResumes, depth, produced, writes, escaped,
                   seenCount, firstSeen, lastSeen, bodyStarted,
                   firstResumedBy>>
    /\ UNCHANGED notTask

TaskNext ==
    \/ \E f \in Frames : RunBody(f)
    \/ \E f \in Frames : AwaitResume(f)
    \/ \E f \in Frames : RunLast(f)
    \/ \E t \in TaskObjs, via \in {"sync_wait", "async_run"} :
          SyncWaitBegin(t, via)
    \/ SyncWaitResume
    \/ SyncWaitReturn
    \/ \E t \in TaskObjs, rvalue \in BOOLEAN : ReadResult(t, rvalue)

OwnNext ==
    \/ \E t \in TaskObjs : CreateTask(t)
    \/ \E src \in TaskObjs, dst \in TaskObjs : MoveConstruct(src, dst)
    \/ \E dst \in TaskObjs, src \in TaskObjs : MoveAssign(dst, src)
    \/ \E t \in TaskObjs : DestroyObj(t)
    \/ \E f \in Frames : RunBody(f)
    \/ \E f \in Frames : AwaitResume(f)
    \/ \E f \in Frames : RunLast(f)
    \/ \E t \in TaskObjs, via \in {"sync_wait", "async_run"} :
          SyncWaitBegin(t, via)
    \/ SyncWaitResume
    \/ SyncWaitReturn


\* ------------------------------------------------------ ThreadPool bounds
\* Worker threads of the pool (std::thread::hardware_concurrency()).
NumWorkers == 2
\* Closures handed to submit over a run.
MaxClosures == 3
\* async_run calls over a run (each makes one State anchor).
MaxAnchors == 1
\* shutdown() calls over a run (the explicit call, then the destructor's).
MaxShutdownCalls == 2


Workers == 1..NumWorkers
Closures == 1..MaxClosures
Anchors == 1..MaxAnchors

SeqToSet(q) == {q[i] : i \in 1..Len(q)}

PoolInit ==
    /\ stop_ = FALSE
    /\ task_queue_ = <<>>
    /\ wpc = [w \in Workers |-> "wait"]
    /\ wtask = [w \in Workers |-> 0]
    /\ nsub = 0
    /\ payload = [c \in Closures |-> 0]
    /\ afterStop = [c \in Closures |-> FALSE]
    /\ runs = [c \in Closures |-> 0]
    /\ startedBy = [c \in Closures |-> 0]
    /\ finishedBy = [c \in Closures |-> 0]
    /\ started = <<>>
    /\ sdpc = "idle"
    /\ sdcalls = 0
    /\ atStop = [queued |-> {}, running |-> {}]
    /\ nanchor = 0
    /\ executed = [a \in Anchors |-> FALSE]
    /\ future = [a \in Anchors |-> "none"]
    /\ promiseSets = [a \in Anchors |-> 0]
    /\ bodyRuns = [a \in Anchors |-> 0]
    /\ bodyThrows = [a \in Anchors |-> FALSE]
    /\ taskpc = [a \in Anchors |-> "none"]
    /\ refs = [a \in Anchors |-> 0]
    /\ casFails = [a \in Anchors |-> 0]
    /\ detached = [a \in Anchors |-> FALSE]
    /\ frees = [a \in Anchors |-> 0]
    /\ cthrows = [c \in Closures |-> FALSE]
    /\ invoked = <<>>

\* ThreadPool::submit, the queue after the call: rejected once stop_ is set.
SubmitQueueUnguarded(c) == Append(task_queue_, c)
SubmitQueue(c) ==
    IF stop_ THEN task_queue_ ELSE Append(task_queue_, c)

\* ~State, run when the last shared_ptr<State> goes: the Task destroys its
\* frame, and the std::promise, if it was never satisfied, makes the shared
\* state ready with a broken_promise error.
ReleaseFuture(a, n) ==
    IF n = 0 /\ future[a] = "pending" THEN "broken_promise" ELSE future[a]
ReleaseTaskLeaked(a, n) == taskpc[a]
ReleaseTask(a, n) ==
    IF n = 0 THEN "destroyed" ELSE taskpc[a]

\* The frame destructions of anchor a's Task so far, after a release that
\* leaves n holders.
FreesAfter(a, n) ==
    IF ReleaseTask(a, n) = "destroyed" /\ taskpc[a] # "destroyed"
    THEN frees[a] + 1
    ELSE frees[a]

\* submit(task) for a plain closure that returns or raises, from any
\* thread.
Submit(throws) ==
    /\ nsub < MaxClosures
    /\ LET c == nsub + 1 IN
        /\ nsub' = c
        /\ cthrows' = [cthrows EXCEPT ![c] = throws]
        /\ afterStop' = [afterStop EXCEPT ![c] = stop_]
        /\ task_queue_' = SubmitQueue(c)
    /\ UNCHANGED <<stop_, wpc, wtask, payload, runs, startedBy, finishedBy,
                   started, sdpc, sdcalls, atStop, nanchor, executed, future,
                   promiseSets, bodyRuns, bodyThrows, taskpc, refs, casFails>>
    /\ UNCHANGED notPool
    /\ UNCHANGED invokeVars
    /\ UNCHANGED ffVars

\* async_run(task): the State anchor, the runner capturing it, the runner
\* handed to submit; on return only queued runners hold the anchor.
AsyncRun(throws) ==
    /\ nsub < MaxClosures
    /\ nanchor < MaxAnchors
    /\ LET c == nsub + 1
           a == nanchor + 1
           q == SubmitQueue(c)
           n == IF c \in SeqToSet(q) THEN 1 ELSE 0
       IN
        /\ nsub' = c
        /\ nanchor' = a
        /\ payload' = [payload EXCEPT ![c] = a]
        /\ afterStop' = [afterStop EXCEPT ![c] = stop_]
        /\ task_queue_' = q
        /\ bodyThrows' = [bodyThrows EXCEPT ![a] = throws]
        /\ refs' = [refs EXCEPT ![a] = n]
        /\ future' = [future EXCEPT ![a] =
                         IF n = 0 THEN "broken_promise" ELSE "pending"]
        /\ taskpc' = [taskpc EXCEPT ![a] =
                         IF n = 0 THEN "destroyed" ELSE "initial"]
        /\ frees' = [frees EXCEPT ![a] = IF n = 0 THEN 1 ELSE 0]
    /\ UNCHANGED <<stop_, wpc, wtask, runs, startedBy, finishedBy, started,
                   sdpc, sdcalls, atStop, executed, promiseSets, bodyRuns,
                   casFails>>
    /\ UNCHANGED detached
    /\ UNCHANGED notPool
    /\ UNCHANGED invokeVars
    /\ UNCHANGED closureVars

\* fire_and_forget(task): the Task moved into a shared_ptr, the runner that
\* captures it handed to Scheduler::schedule, that is to submit; on return
\* only the queued runner holds the Task (a rejected runner is destroyed).
FireAndForget(throws) ==
    /\ nsub < MaxClosures
    /\ nanchor < MaxAnchors
    /\ LET c == nsub + 1
           a == nanchor + 1
           q == SubmitQueue(c)
           n == IF c \in SeqToSet(q) THEN 1 ELSE 0
       IN
        /\ nsub' = c
        /\ nanchor' = a
        /\ payload' = [payload EXCEPT ![c] = a]
        /\ afterStop' = [afterStop EXCEPT ![c] = stop_]
        /\ task_queue_' = q
        /\ bodyThrows' = [bodyThrows EXCEPT ![a] = throws]
        /\ detached' = [detached EXCEPT ![a] = TRUE]
        /\ refs' = [refs EXCEPT ![a] = n]
        /\ taskpc' = [taskpc EXCEPT ![a] =
                         IF n = 0 THEN "destroyed" ELSE "initial"]
        /\ frees' = [frees EXCEPT ![a] = IF n = 0 THEN 1 ELSE 0]
    /\ UNCHANGED <<stop_, wpc, wtask, runs, startedBy, finishedBy, started,
                   sdpc, sdcalls, atStop, executed, future, promiseSets,
                   bodyRuns, casFails>>
    /\ UNCHANGED notPool
    /\ UNCHANGED invokeVars
    /\ UNCHANGED closureVars

\* A copy of anchor a's runner is handed to submit once more (the double
\* submission State::executed is there for).
SubmitRunnerCopy(a) ==
    /\ nsub < MaxClosures
    /\ a <= nanchor
    /\ ~detached[a]
    /\ refs[a] > 0
    /\ LET c == nsub + 1
           q == SubmitQueue(c)
       IN
        /\ nsub' = c
        /\ payload' = [payload EXCEPT ![c] = a]
        /\ afterStop' = [afterStop EXCEPT ![c] = stop_]
        /\ task_queue_' = q
        /\ refs' = [refs EXCEPT ![a] = IF c \in SeqToSet(q) THEN @ + 1 ELSE @]
    /\ UNCHANGED <<stop_, wpc, wtask, runs, startedBy, finishedBy, started,
                   sdpc, sdcalls, atStop, nanchor, executed, future,
                   promiseSets, bodyRuns, bodyThrows, taskpc, casFails>>
    /\ UNCHANGED notPool
    /\ UNCHANGED invokeVars
    /\ UNCHANGED closureVars
    /\ UNCHANGED ffVars

\* worker_thread, the exit test after the wait: stop_ and an empty queue.
WorkerExitsOnStop == stop_
WorkerExits == stop_ /\ task_queue_ = <<>>

\* worker_thread, the queue after taking the front closure.
QueueAfterTakeKept == task_queue_
QueueAfterTake == Tail(task_queue_)

\* worker_thread: the wait returns with stop_ set and nothing queued.
WorkerExit(w) ==
    /\ wpc[w] = "wait"
    /\ WorkerExits
    /\ wpc' = [wpc EXCEPT ![w] = "exited"]
    /\ UNCHANGED <<stop_, task_queue_, wtask, nsub, payload, afterStop, runs,
                   startedBy, finishedBy, started, sdpc, sdcalls, atStop,
                   nanchor, executed, future, promiseSets, bodyRuns,
                   bodyThrows, taskpc, refs, casFails>>
    /\ UNCHANGED notPool
    /\ UNCHANGED invokeVars
    /\ UNCHANGED closureVars
    /\ UNCHANGED ffVars

\* worker_thread: the wait returns with a closure queued; it is moved out of
\* the front of the queue under the lock and then invoked outside it.
WorkerTake(w) ==
    /\ wpc[w] = "wait"
    /\ ~WorkerExits
    /\ task_queue_ # <<>>
    /\ LET c == Head(task_queue_) IN
        /\ task_queue_' = QueueAfterTake
        /\ wtask' = [wtask EXCEPT ![w] = c]
        /\ wpc' = [wpc EXCEPT ![w] = "taken"]
        /\ runs' = [runs EXCEPT ![c] = @ + 1]
        /\ startedBy' = [startedBy EXCEPT ![c] = w]
        /\ started' = Append(started, c)
    /\ UNCHANGED <<stop_, nsub, payload, afterStop, finishedBy, sdpc, sdcalls,
                   atStop, nanchor, executed, future, promiseSets, bodyRuns,
                   bodyThrows, taskpc, refs, casFails>>
    /\ UNCHANGED notPool
    /\ UNCHANGED invokeVars
    /\ UNCHANGED closureVars
    /\ UNCHANGED ffVars

\* worker_thread, after the lock is released: if (task) (*task)(); the
\* invocation of the closure taken under the lock begins.
WorkerInvoke(w) ==
    /\ wpc[w] = "taken"
    /\ LET c == wtask[w] IN
        /\ invoked' = Append(invoked, c)
        /\ wpc' = [wpc EXCEPT ![w] =
                      IF payload[c] = 0 THEN "run"
                      ELSE IF detached[payload[c]] THEN "resume_loop"
                      ELSE "cas"]
    /\ UNCHANGED <<stop_, task_queue_, wtask, nsub, payload, afterStop, runs,
                   startedBy, finishedBy, started, sdpc, sdcalls, atStop,
                   nanchor, executed, future, promiseSets, bodyRuns,
                   bodyThrows, taskpc, refs, casFails>>
    /\ UNCHANGED notPool
    /\ UNCHANGED closureVars
    /\ UNCHANGED ffVars

\* worker_thread: the try block around (*task)() has catch (...), so an
\* error raised by the closure does not leave the worker's loop.
SwallowsErrorNever == FALSE
SwallowsError == TRUE

\* worker_thread: the closure returns (or its exception is swallowed) and the
\* optional holding it is destroyed; a runner gives up its anchor.  An error
\* that left the thread function would end the thread (std::terminate).
FinishClosure(w) ==
    /\ wpc[w] \in {"run", "exit"}
    /\ LET c == wtask[w]
           a == payload[c]
       IN
        /\ finishedBy' = [finishedBy EXCEPT ![c] = w]
        /\ IF a = 0
           THEN UNCHANGED <<refs, future, taskpc, frees>>
           ELSE /\ refs' = [refs EXCEPT ![a] = @ - 1]
                /\ future' = [future EXCEPT ![a] = ReleaseFuture(a, refs[a] - 1)]
                /\ taskpc' = [taskpc EXCEPT ![a] = ReleaseTask(a, refs[a] - 1)]
                /\ frees' = [frees EXCEPT ![a] = FreesAfter(a, refs[a] - 1)]
    /\ wtask' = [wtask EXCEPT ![w] = 0]
    /\ wpc' = [wpc EXCEPT ![w] =
                  IF cthrows[wtask[w]] /\ ~SwallowsError
                  THEN "terminated" ELSE "wait"]
    /\ UNCHANGED <<stop_, task_queue_, nsub, payload, afterStop, runs,
                   startedBy, started, sdpc, sdcalls, atStop, nanchor,
                   executed, promiseSets, bodyRuns, bodyThrows, casFails>>
    /\ UNCHANGED detached
    /\ UNCHANGED notPool
    /\ UNCHANGED invokeVars
    /\ UNCHANGED closureVars

\* runner: executed.compare_exchange_strong(false, true); whether it passes.
CasPassesAlways(a) == TRUE
CasPasses(a) == ~executed[a]

\* runner: the compare-exchange on State::executed.
RunnerCas(w) ==
    /\ wpc[w] = "cas"
    /\ LET a == payload[wtask[w]] IN
        IF CasPasses(a)
        THEN /\ executed' = [executed EXCEPT ![a] = TRUE]
             /\ wpc' = [wpc EXCEPT ![w] = "sync_wait"]
             /\ UNCHANGED casFails
        ELSE /\ casFails' = [casFails EXCEPT ![a] = @ + 1]
             /\ wpc' = [wpc EXCEPT ![w] = "exit"]
             /\ UNCHANGED executed
    /\ UNCHANGED <<stop_, task_queue_, wtask, nsub, payload, afterStop, runs,
                   startedBy, finishedBy, started, sdpc, sdcalls, atStop,
                   nanchor, future, promiseSets, bodyRuns, bodyThrows, taskpc,
                   refs>>
    /\ UNCHANGED notPool
    /\ UNCHANGED invokeVars
    /\ UNCHANGED closureVars
    /\ UNCHANGED ffVars

\* runner: state->task.sync_wait() resumes the frame unless it is done.
RunnerSyncWait(w) ==
    /\ wpc[w] = "sync_wait"
    /\ LET a == payload[wtask[w]] IN
        IF taskpc[a] # "final"
        THEN /\ bodyRuns' = [bodyRuns EXCEPT ![a] = @ + 1]
             /\ taskpc' = [taskpc EXCEPT ![a] = "running"]
             /\ wpc' = [wpc EXCEPT ![w] = "body"]
        ELSE /\ wpc' = [wpc EXCEPT ![w] = "fulfil"]
             /\ UNCHANGED <<bodyRuns, taskpc>>
    /\ UNCHANGED <<stop_, task_queue_, wtask, nsub, payload, afterStop, runs,
                   startedBy, finishedBy, started, sdpc, sdcalls, atStop,
                   nanchor, executed, future, promiseSets, bodyThrows, refs,
                   casFails>>
    /\ UNCHANGED notPool
    /\ UNCHANGED invokeVars
    /\ UNCHANGED closureVars
    /\ UNCHANGED ffVars

\* The Task body runs on the worker to its final suspension: its value or
\* its error is in the result slot and resume() returns.
RunnerBody(w) ==
    /\ wpc[w] = "body"
    /\ LET a == payload[wtask[w]] IN
        taskpc' = [taskpc EXCEPT ![a] = "final"]
    /\ wpc' = [wpc EXCEPT ![w] =
                  IF detached[payload[wtask[w]]] THEN "resume_loop"
                  ELSE "fulfil"]
    /\ UNCHANGED <<stop_, task_queue_, wtask, nsub, payload, afterStop, runs,
                   startedBy, finishedBy, started, sdpc, sdcalls, atStop,
                   nanchor, executed, future, promiseSets, bodyRuns,
                   bodyThrows, refs, casFails>>
    /\ UNCHANGED notPool
    /\ UNCHANGED invokeVars
    /\ UNCHANGED closureVars
    /\ UNCHANGED ffVars

\* fire_and_forget's runner: while (!handle.done()) handle.resume(); the
\* runner returns once the frame is at its final suspension.
RunnerResumeLoop(w) ==
    /\ wpc[w] = "resume_loop"
    /\ LET a == payload[wtask[w]] IN
        IF taskpc[a] # "final"
        THEN /\ bodyRuns' = [bodyRuns EXCEPT ![a] = @ + 1]
             /\ taskpc' = [taskpc EXCEPT ![a] = "running"]
             /\ wpc' = [wpc EXCEPT ![w] = "body"]
        ELSE /\ wpc' = [wpc EXCEPT ![w] = "exit"]
             /\ UNCHANGED <<bodyRuns, taskpc>>
    /\ UNCHANGED <<stop_, task_queue_, wtask, nsub, payload, afterStop, runs,
                   startedBy, finishedBy, started, sdpc, sdcalls, atStop,
                   nanchor, executed, future, promiseSets, bodyThrows, refs,
                   casFails>>
    /\ UNCHANGED notPool
    /\ UNCHANGED invokeVars
    /\ UNCHANGED closureVars
    /\ UNCHANGED ffVars

\* runner: promise.set_value(result), or promise.set_exception in the catch;
\* a promise that is already satisfied raises, which the runner swallows.
RunnerFulfil(w) ==
    /\ wpc[w] = "fulfil"
    /\ LET a == payload[wtask[w]] IN
        IF future[a] = "pending"
        THEN /\ future' = [future EXCEPT ![a] =
                              IF bodyThrows[a] THEN "error" ELSE "value"]
             /\ promiseSets' = [promiseSets EXCEPT ![a] = @ + 1]
        ELSE UNCHANGED <<future, promiseSets>>
    /\ wpc' = [wpc EXCEPT ![w] = "exit"]
    /\ UNCHANGED <<stop_, task_queue_, wtask, nsub, payload, afterStop, runs,
                   startedBy, finishedBy, started, sdpc, sdcalls, atStop,
                   nanchor, executed, bodyRuns, bodyThrows, taskpc, refs,
                   casFails>>
    /\ UNCHANGED notPool
    /\ UNCHANGED invokeVars
    /\ UNCHANGED closureVars
    /\ UNCHANGED ffVars

\* ThreadPool::shutdown up to the joins: returns at once if stop_ is set,
\* else sets it under the lock and wakes every worker.
ShutdownBegin ==
    /\ sdpc \in {"idle", "returned"}
    /\ sdcalls < MaxShutdownCalls
    /\ sdcalls' = sdcalls + 1
    /\ IF stop_
       THEN /\ sdpc' = "returned"
            /\ UNCHANGED <<stop_, atStop>>
       ELSE /\ stop_' = TRUE
            /\ sdpc' = "joining"
            /\ atStop' = [queued |-> SeqToSet(task_queue_),
                           running |-> {wtask[w] : w \in Workers} \ {0}]
    /\ UNCHANGED <<task_queue_, wpc, wtask, nsub, payload, afterStop, runs,
                   startedBy, finishedBy, started, nanchor, executed, future,
                   promiseSets, bodyRuns, bodyThrows, taskpc, refs, casFails>>
    /\ UNCHANGED notPool
    /\ UNCHANGED invokeVars
    /\ UNCHANGED closureVars
    /\ UNCHANGED ffVars

\* ThreadPool::shutdown: every worker.join() has returned; workers_.clear().
ShutdownJoined ==
    /\ sdpc = "joining"
    /\ \A w \in Workers : wpc[w] = "exited"
    /\ sdpc' = "returned"
    /\ UNCHANGED <<stop_, task_queue_, wpc, wtask, nsub, payload, afterStop,
                   runs, startedBy, finishedBy, started, sdcalls, atStop,
                   nanchor, executed, future, promiseSets, bodyRuns,
                   bodyThrows, taskpc, refs, casFails>>
    /\ UNCHANGED notPool
    /\ UNCHANGED invokeVars
    /\ UNCHANGED closureVars
    /\ UNCHANGED ffVars

PoolNext ==
    \/ \E throws \in BOOLEAN : Submit(throws)
    \/ \E throws \in BOOLEAN : AsyncRun(throws)
    \/ \E throws \in BOOLEAN : FireAndForget(throws)
    \/ \E a \in Anchors : SubmitRunnerCopy(a)
    \/ \E w \in Workers : WorkerExit(w)
    \/ \E w \in Workers : WorkerTake(w)
    \/ \E w \in Workers : WorkerInvoke(w)
    \/ \E w \in Workers : FinishClosure(w)
    \/ \E w \in Workers : RunnerCas(w)
    \/ \E w \in Workers : RunnerSyncWait(w)
    \/ \E w \in Workers : RunnerBody(w)
    \/ \E w \in Workers : RunnerResumeLoop(w)
    \/ \E w \in Workers : RunnerFulfil(w)
    \/ ShutdownBegin
    \/ ShutdownJoined

\* ------------------------------------------------------------ EventLoop
TimerIds == 0..(MaxTimers - 1)

\* The poll timeout process_timers returns when no timer is left, in ms.
DefaultTimeout == 100

\* EventLoop() : running_(false), next_timer_id_(0); nothing queued.
LoopInit ==
    /\ running_ = FALSE
    /\ lpc = "idle"
    /\ ready_queue_ = <<>>
    /\ local_queue = <<>>
    /\ timers_ = {}
    /\ next_timer_id_ = 0
    /\ now = 0
    /\ tnow = 0
    /\ expired_callbacks = <<>>
    /\ next_timeout = 0
    /\ fired = <<>>
    /\ deadline = [i \in TimerIds |-> 0]
    /\ cancelled = {}

\* The ids in the timer store.
TimerKeys == {t.id : t \in timers_}

\* timers_[id]: the entry stored under an id.
TimerAt(i) == CHOOSE t \in timers_ : t.id = i

\* The ids of a set of timers as a sequence in the iteration order of
\* std::map<TimerId, Timer>: ascending id.
RECURSIVE InMapOrder(_)
InMapOrder(ids) ==
    IF ids = {} THEN <<>>
    ELSE LET first == CHOOSE i \in ids : \A j \in ids : i <= j
         IN <<first>> \o InMapOrder(ids \ {first})

\* timers_.begin(): the entry with the smallest key.
TimersBegin == TimerAt(CHOOSE i \in TimerKeys : \A j \in TimerKeys : i <= j)

\* add_timer(delay_ms, callback), from any thread.
AddTimer(delay) ==
    /\ next_timer_id_ < MaxTimers
    /\ LET id == next_timer_id_ IN
        /\ next_timer_id_' = id + 1
        /\ timers_' = {t \in timers_ : t.id # id}
                        \cup {[id |-> id, expire_time |-> now + delay]}
        /\ deadline' = [deadline EXCEPT ![id] = now + delay]
    /\ UNCHANGED <<running_, lpc, ready_queue_, local_queue, now, tnow,
                   expired_callbacks, next_timeout, fired, cancelled>>
    /\ UNCHANGED notLoop

\* timers_.erase(id) on a store ts: the entry with that key goes, if there
\* is one.
TimersEraseFirst(ts, id) ==
    IF \E t \in ts : t.id = id
    THEN {t \in ts : t.id # id}
    ELSE ts \ {x \in ts : \A y \in ts : x.id <= y.id}
TimersErase(ts, id) == {t \in ts : t.id # id}

\* cancel_timer(id), from any thread, with any id (issued or not):
\* timers_.erase(id).
CancelTimer(id) ==
    /\ timers_' = TimersErase(timers_, id)
    /\ cancelled' = IF id \in TimerKeys THEN cancelled \cup {id} ELSE cancelled
    /\ UNCHANGED <<running_, lpc, ready_queue_, local_queue, next_timer_id_,
                   now, tnow, expired_callbacks, next_timeout, fired,
                   deadline>>
    /\ UNCHANGED notLoop

\* The steady clock advances.
Tick ==
    /\ now < MaxTime
    /\ now' = now + 1
    /\ UNCHANGED <<running_, lpc, ready_queue_, local_queue, timers_,
                   next_timer_id_, tnow, expired_callbacks, next_timeout,
                   fired, deadline, cancelled>>
    /\ UNCHANGED notLoop

\* run() is called on the loop's thread: running_ = true.
Run ==
    /\ lpc = "idle"
    /\ running_' = TRUE
    /\ lpc' = "top"
    /\ UNCHANGED <<ready_queue_, local_queue, timers_, next_timer_id_, now,
                   tnow, expired_callbacks, next_timeout, fired, deadline,
                   cancelled>>
    /\ UNCHANGED notLoop

\* stop(), from any thread: running_ = false.
Stop ==
    /\ running_
    /\ running_' = FALSE
    /\ UNCHANGED <<lpc, ready_queue_, local_queue, timers_, next_timer_id_,
                   now, tnow, expired_callbacks, next_timeout, fired,
                   deadline, cancelled>>
    /\ UNCHANGED notLoop

\* run: the test of while (running_); then process_ready_queue swaps the
\* ready queue into local_queue under the lock.
\* local_queue.swap(ready_queue_) with an empty local_queue: what
\* ready_queue_ holds afterwards.
ReadyAfterSwapKept == ready_queue_
ReadyAfterSwap == <<>>

LoopTop ==
    /\ lpc = "top"
    /\ IF running_
       THEN /\ local_queue' = ready_queue_
            /\ ready_queue_' = ReadyAfterSwap
            /\ lpc' = "drain"
       ELSE /\ lpc' = "idle"
            /\ UNCHANGED <<ready_queue_, local_queue>>
    /\ UNCHANGED <<running_, timers_, next_timer_id_, now, tnow,
                   expired_callbacks, next_timeout, fired, deadline,
                   cancelled>>
    /\ UNCHANGED notLoop

\* process_timers, first block: read the clock and, under the lock, move the
\* callback of every expired timer out of the store, walking the map from
\* begin() to end().
ExpiredInOrder(ids) == InMapOrder(ids)

ProcessTimers ==
    /\ lpc = "drain"
    /\ local_queue = <<>>
    /\ LET expired == {t \in timers_ : t.expire_time <= now} IN
        /\ tnow' = now
        /\ expired_callbacks' = ExpiredInOrder({t.id : t \in expired})
        /\ timers_' = timers_ \ expired
    /\ lpc' = "fire"
    /\ UNCHANGED <<running_, ready_queue_, local_queue, next_timer_id_, now,
                   next_timeout, fired, deadline, cancelled>>
    /\ UNCHANGED notLoop

\* process_timers, the loop over expired_callbacks: one callback is called.
FireTimer ==
    /\ lpc = "fire"
    /\ expired_callbacks # <<>>
    /\ fired' = Append(fired, Head(expired_callbacks))
    /\ expired_callbacks' = Tail(expired_callbacks)
    /\ UNCHANGED <<running_, lpc, ready_queue_, local_queue, timers_,
                   next_timer_id_, now, tnow, next_timeout, deadline,
                   cancelled>>
    /\ UNCHANGED notLoop

\* process_timers, last block: the timeout until the next timer, from
\* timers_.begin() and the clock value read at the start.
NextTimeout ==
    IF timers_ = {} THEN DefaultTimeout
    ELSE IF TimersBegin.expire_time - tnow > 0
         THEN TimersBegin.expire_time - tnow
         ELSE 0

ComputeTimeout ==
    /\ lpc = "fire"
    /\ expired_callbacks = <<>>
    /\ next_timeout' = NextTimeout
    /\ lpc' = "poll"
    /\ UNCHANGED <<running_, ready_queue_, local_queue, timers_,
                   next_timer_id_, now, tnow, expired_callbacks, fired,
                   deadline, cancelled>>
    /\ UNCHANGED notLoop

\* ------------------------------------------- EpollPoller and AsyncSocket
Fds == 1..MaxFd
IOFrames == 1..MaxIOFrames
Threads == {"worker", "reactor"}
Kinds == {"in", "out", "hup"}

\* EpollPoller::Read | EdgeTriggered and Write | EdgeTriggered, as the set of
\* conditions asked for.
ReadMask == {"in"}
WriteMask == {"out"}

NoReg == [coro |-> 0, events |-> {}]

\* Sockets open, nothing registered, no frame running.
PollerCreated ==
    /\ handlers_ = {}
    /\ level = [fd \in Fds |-> {}]
    /\ rdlist = [fd \in Fds |-> FALSE]
    /\ sockOpen = [fd \in Fds |-> TRUE]
    /\ nev = 0
    /\ inside = [f \in IOFrames |-> [t \in Threads |-> "out"]]
    /\ workerResumedWaiting = [f \in IOFrames |-> FALSE]
    /\ raced = [f \in IOFrames |-> FALSE]
    /\ destroyedSuspended = [f \in IOFrames |-> FALSE]
    /\ resumedAfterDestroy = [f \in IOFrames |-> FALSE]
    /\ lastReg = [fd \in Fds |-> NoReg]
    /\ replaced = [fd \in Fds |-> FALSE]
    /\ delivered = [fd \in Fds |-> 0]
    /\ polledEvents = [fd \in Fds |-> {}]
    /\ polled = <<>>

\* Frames created and initially suspended, sockets open, nothing registered.
IOCreated ==
    /\ PollerCreated
    /\ fpos = [f \in IOFrames |-> "initial"]

\* The socket operations of a run: any kinds, sockets and drivers (the first
\* frame's socket is descriptor 1).
IOInit ==
    /\ kind \in [IOFrames -> {"read", "write"}]
    /\ sockfd \in [IOFrames -> Fds]
    /\ sockfd[1] = 1
    /\ driver \in [IOFrames -> {"async_run", "schedule"}]
    /\ IOCreated

\* The frames as they stay while no socket operation is exercised.
IOIdle ==
    /\ kind = [f \in IOFrames |-> "read"]
    /\ sockfd = [f \in IOFrames |-> 1]
    /\ driver = [f \in IOFrames |-> "schedule"]
    /\ IOCreated

\* EpollPoller::has(fd).
Has(fd) == \E h \in handlers_ : h.fd = fd

\* handlers_[fd] = EventHandler{coro, events}: the entry of the key is
\* replaced, or inserted if there was none.
HandlersAssignAdded(fd, coro, events) ==
    handlers_ \cup {[fd |-> fd, coro |-> coro, events |-> events]}
HandlersAssign(fd, coro, events) ==
    {h \in handlers_ : h.fd # fd}
        \cup {[fd |-> fd, coro |-> coro, events |-> events]}

\* handlers_.erase(fd).
HandlersErase(fd) == {h \in handlers_ : h.fd # fd}

\* The conditions epoll reports for a descriptor registered with a mask:
\* those of the mask, and error / hang-up always.
Reported(fd, events) == level[fd] \cap (events \cup {"hup"})

\* EPOLL_CTL_ADD / EPOLL_CTL_MOD: the kernel puts the descriptor on the ready
\* list if a condition asked for already holds.
RdlistAfterCtl(fd, events) ==
    [rdlist EXCEPT ![fd] = @ \/ Reported(fd, events) # {}]

\* EventLoop::register_read / register_write with the descriptor of an open
\* socket: EpollPoller::modify if has(fd), else add; epoll_ctl succeeds and
\* the handler is stored.
Register(fd, coro, events) ==
    /\ handlers_' = HandlersAssign(fd, coro, events)
    /\ rdlist' = RdlistAfterCtl(fd, events)
    /\ lastReg' = [lastReg EXCEPT ![fd] = [coro |-> coro, events |-> events]]
    /\ replaced' = [replaced EXCEPT ![fd] =
                       @ \/ \E h \in handlers_ :
                               h.fd = fd /\ h.coro # coro /\ h.events # events]
    /\ delivered' = [delivered EXCEPT ![fd] = 0]

\* EventLoop::unregister(fd): EpollPoller::remove.
Unregister(fd) ==
    /\ handlers_' = HandlersErase(fd)
    /\ rdlist' = [rdlist EXCEPT ![fd] = FALSE]
    /\ lastReg' = [lastReg EXCEPT ![fd] = NoReg]
    /\ delivered' = [delivered EXCEPT ![fd] = 0]
    /\ UNCHANGED replaced

\* The mask a frame's awaiter registers: ReadAwaiter or WriteAwaiter.
AwaiterMask(f) == IF kind[f] = "read" THEN ReadMask ELSE WriteMask

\* A readiness change on a descriptor: data arrives, buffer space frees up,
\* the peer hangs up, or several of these at once (data followed by a
\* close).  A registered descriptor whose mask covers the change goes on
\* the ready list.
EventArrives(fd, ks) ==
    /\ sockOpen[fd]
    /\ ks # {}
    /\ nev' = nev + 1
    /\ level' = [level EXCEPT ![fd] = @ \cup ks]
    /\ rdlist' = [rdlist EXCEPT ![fd] =
                     @ \/ \E h \in handlers_ :
                             h.fd = fd /\ ks \cap (h.events \cup {"hup"}) # {}]
    /\ UNCHANGED <<handlers_, sockOpen, kind, sockfd, driver, fpos, inside,
                   workerResumedWaiting, raced, destroyedSuspended,
                   resumedAfterDestroy, lastReg, replaced, delivered>>
    /\ UNCHANGED <<loopVars, notLoopIO>>
    /\ UNCHANGED pollVars

KernelEvent(fd, ks) ==
    /\ nev < MaxEvents
    /\ EventArrives(fd, ks)

\* A further readiness change on a descriptor whose continuation a poll has
\* delivered: more data arrives after the read.
KernelEventAfterDelivery(fd, ks) ==
    /\ delivered[fd] > 0
    /\ nev < MaxEvents + MaxLateEvents
    /\ EventArrives(fd, ks)

\* Thread t calls resume() on frame f.
Enter(t, f) ==
    /\ inside' = [inside EXCEPT ![f][t] = fpos[f]]
    /\ raced' = [raced EXCEPT ![f] =
                    @ \/ \E u \in Threads \ {t} : inside[f][u] # "out"]

\* async_run's runner on a worker, in Task::sync_wait:
\* if (!coro_.done()) coro_.resume(); while (!coro_.done()) coro_.resume();
SyncWaitLoop(f) == fpos[f] \in {"initial", "awaiter"}

WorkerSyncWait(f) ==
    /\ driver[f] = "async_run"
    /\ inside[f]["worker"] = "out"
    /\ SyncWaitLoop(f)
    /\ Enter("worker", f)
    /\ workerResumedWaiting' =
           [workerResumedWaiting EXCEPT ![f] = @ \/ fpos[f] = "awaiter"]
    /\ UNCHANGED <<handlers_, level, rdlist, sockOpen, nev, kind, sockfd,
                   driver, fpos, destroyedSuspended,
                   resumedAfterDestroy, lastReg, replaced, delivered>>
    /\ UNCHANGED <<loopVars, notLoopIO>>
    /\ UNCHANGED pollVars

\* Scheduler::schedule(coro): a worker runs the closure
\* if (!coro.done()) coro.resume(), once.
WorkerScheduled(f) ==
    /\ driver[f] = "schedule"
    /\ inside[f]["worker"] = "out"
    /\ fpos[f] = "initial"
    /\ Enter("worker", f)
    /\ UNCHANGED <<handlers_, level, rdlist, sockOpen, nev, kind, sockfd,
                   driver, fpos, workerResumedWaiting, destroyedSuspended, resumedAfterDestroy, lastReg,
                   replaced, delivered>>
    /\ UNCHANGED <<loopVars, notLoopIO>>
    /\ UNCHANGED pollVars

\* Whether the frame, resumed from point p, goes straight to its awaiter:
\* read and accept await first, write awaits after a would-block.
AwaitsFirst(f, p) == kind[f] = "read" /\ p = "initial"

\* ::read / ::accept / ::write on the frame's socket: "ok", "again" (EAGAIN)
\* or "error".
Syscall(f) ==
    LET fd == sockfd[f] IN
    IF ~sockOpen[fd] THEN "error"
    ELSE IF kind[f] = "read"
         THEN IF level[fd] \cap {"in", "hup"} # {} THEN "ok" ELSE "again"
         ELSE IF "hup" \in level[fd] THEN "error"
              ELSE IF "out" \in level[fd] THEN "ok" ELSE "again"

\* The frame runs on thread t from where it was resumed to its next
\* suspension: it awaits readiness (the awaiter registers the frame and the
\* thread leaves it), or it returns or raises (final suspension).
BodyStep(t, f) ==
    /\ inside[f][t] # "out"
    /\ inside' = [inside EXCEPT ![f][t] = "out"]
    /\ LET fd == sockfd[f]
           suspend == AwaitsFirst(f, inside[f][t]) \/ Syscall(f) = "again"
       IN
        IF suspend /\ sockOpen[fd]
        THEN /\ Register(fd, f, AwaiterMask(f))
             /\ fpos' = [fpos EXCEPT ![f] = "awaiter"]
             /\ UNCHANGED level
        ELSE /\ fpos' = [fpos EXCEPT ![f] = "final"]
             /\ level' = [level EXCEPT ![fd] =
                             IF suspend \/ Syscall(f) # "ok" THEN @
                             ELSE @ \ AwaiterMask(f)]
             /\ UNCHANGED <<handlers_, rdlist, lastReg, replaced, delivered>>
    /\ IF t = "reactor" THEN lpc' = "drain" ELSE UNCHANGED lpc
    /\ UNCHANGED <<sockOpen, nev, kind, sockfd, driver, workerResumedWaiting,
                   raced, destroyedSuspended,
                   resumedAfterDestroy>>
    /\ UNCHANGED <<running_, ready_queue_, local_queue, timers_,
                   next_timer_id_, now, tnow, expired_callbacks,
                   next_timeout, fired, deadline, cancelled>>
    /\ UNCHANGED notLoopIO
    /\ UNCHANGED pollVars

\* async_run's runner: sync_wait found the frame done; the runner fulfils
\* the future and is destroyed, and with it the State and the Task's frame.
RunnerDone(f) ==
    /\ driver[f] = "async_run"
    /\ fpos[f] = "final"
    /\ \A t \in Threads : inside[f][t] = "out"
    /\ fpos' = [fpos EXCEPT ![f] = "destroyed"]
    /\ UNCHANGED <<handlers_, level, rdlist, sockOpen, nev, kind, sockfd,
                   driver, inside, workerResumedWaiting, raced, destroyedSuspended, resumedAfterDestroy, lastReg,
                   replaced, delivered>>
    /\ UNCHANGED <<loopVars, notLoopIO>>
    /\ UNCHANGED pollVars

\* The owner of a Task drops it: ~Task destroys the frame.  With closeSocket
\* the owner also drops the socket (~AsyncSocket: close unregisters the
\* descriptor, then releases it).
DestroyTask(f, closeSocket) ==
    /\ driver[f] = "schedule"
    /\ fpos[f] \in {"awaiter", "final"}
    /\ \A t \in Threads : inside[f][t] = "out"
    /\ fpos' = [fpos EXCEPT ![f] = "destroyed"]
    /\ destroyedSuspended' =
           [destroyedSuspended EXCEPT ![f] = fpos[f] = "awaiter"]
    /\ IF closeSocket /\ sockOpen[sockfd[f]]
       THEN /\ Unregister(sockfd[f])
            /\ sockOpen' = [sockOpen EXCEPT ![sockfd[f]] = FALSE]
            /\ level' = [level EXCEPT ![sockfd[f]] = {}]
       ELSE UNCHANGED <<handlers_, rdlist, lastReg, replaced, delivered, sockOpen, level>>
    /\ UNCHANGED <<nev, kind, sockfd, driver, inside, workerResumedWaiting,
                   raced, resumedAfterDestroy>>
    /\ UNCHANGED <<loopVars, notLoopIO>>
    /\ UNCHANGED pollVars

\* process_ready_queue, one turn of the loop over local_queue:
\* if (coro && !coro.done()) coro.resume().  A handle to a destroyed frame
\* dangles: done() reads freed memory, so the frame is skipped or resumed.
LoopResume(afterFree) ==
    /\ lpc = "drain"
    /\ local_queue # <<>>
    /\ LET f == Head(local_queue) IN
        /\ local_queue' = Tail(local_queue)
        /\ IF f = 0
           THEN /\ ~afterFree
                /\ UNCHANGED <<resumedAfterDestroy, inside, raced, lpc>>
           ELSE IF fpos[f] = "destroyed"
           THEN /\ resumedAfterDestroy' =
                       [resumedAfterDestroy EXCEPT ![f] = @ \/ afterFree]
                /\ UNCHANGED <<inside, raced, lpc>>
           ELSE /\ ~afterFree
                /\ UNCHANGED resumedAfterDestroy
                /\ IF fpos[f] = "final"
                   THEN UNCHANGED <<inside, raced, lpc>>
                   ELSE /\ Enter("reactor", f)
                        /\ lpc' = "inframe"
    /\ UNCHANGED <<handlers_, level, rdlist, sockOpen, nev, kind, sockfd,
                   driver, fpos, workerResumedWaiting, destroyedSuspended, lastReg, replaced, delivered>>
    /\ UNCHANGED <<running_, ready_queue_, timers_, next_timer_id_, now,
                   tnow, expired_callbacks, next_timeout, fired, deadline,
                   cancelled>>
    /\ UNCHANGED notLoopIO
    /\ UNCHANGED pollVars

\* All orders of a set of descriptors (the kernel's order of ready events).
RECURSIVE Orders(_)
Orders(S) ==
    IF S = {} THEN {<<>>}
    ELSE UNION {{<<x>> \o o : o \in Orders(S \ {x})} : x \in S}

\* EpollPoller::poll, one turn of the loop over the returned events: the
\* handler of the event's descriptor is looked up and, if the reported
\* conditions meet its mask or include error / hang-up, its continuation is
\* pushed, once.
PushesPerCondition(fd) ==
    LET found == {h \in handlers_ : h.fd = fd} IN
    IF found = {} THEN <<>>
    ELSE LET h == CHOOSE x \in found : TRUE
             n == Cardinality(Reported(fd, h.events))
         IN [i \in 1..n |-> h.coro]
PushesNone(fd) == <<>>
PushesFor(fd) ==
    LET found == {h \in handlers_ : h.fd = fd}
        hit == {h \in found :
                   \/ Reported(fd, h.events) \cap h.events # {}
                   \/ "hup" \in Reported(fd, h.events)}
    IN IF hit = {} THEN <<>> ELSE <<(CHOOSE h \in hit : TRUE).coro>>

\* EpollPoller::poll, the loop over the returned events (one event per ready
\* descriptor, carrying all its conditions): the continuations, in event
\* order.
RECURSIVE ReadyCoros(_)
ReadyCoros(order) ==
    IF order = <<>> THEN <<>>
    ELSE PushesFor(Head(order)) \o ReadyCoros(Tail(order))

\* The same, each continuation paired with the descriptor it was pushed for.
RECURSIVE ReadyPairs(_)
ReadyPairs(order) ==
    IF order = <<>> THEN <<>>
    ELSE LET fd == Head(order)
             pushes == PushesFor(fd)
         IN [i \in 1..Len(pushes) |-> [fd |-> fd, coro |-> pushes[i]]]
                \o ReadyPairs(Tail(order))

\* run, step 3: if (running_) poll the multiplexer (edge-triggered: what is
\* reported leaves the ready list) and schedule every ready continuation.
LoopPoll ==
    /\ lpc = "poll"
    /\ lpc' = "top"
    /\ IF running_
       THEN LET ready == {fd \in Fds :
                             /\ rdlist[fd]
                             /\ \E h \in handlers_ :
                                   h.fd = fd /\ Reported(fd, h.events) # {}}
            IN \E order \in Orders(ready) :
                /\ ready_queue_' = ready_queue_ \o ReadyCoros(order)
                /\ rdlist' = [fd \in Fds |-> FALSE]
                /\ polled' = ReadyPairs(order)
                /\ polledEvents' =
                       [fd \in Fds |->
                           IF fd \in ready
                           THEN UNION {Reported(fd, h.events) :
                                          h \in {x \in handlers_ : x.fd = fd}}
                           ELSE {}]
                /\ delivered' =
                       [fd \in Fds |->
                           IF fd \in ready
                           THEN delivered[fd] + Len(PushesFor(fd))
                           ELSE delivered[fd]]
       ELSE UNCHANGED <<ready_queue_, rdlist, polled, polledEvents,
                        delivered>>
    /\ UNCHANGED <<handlers_, level, sockOpen, nev, kind, sockfd, driver,
                   fpos, inside, workerResumedWaiting, raced,
                   destroyedSuspended, resumedAfterDestroy, lastReg,
                   replaced>>
    /\ UNCHANGED <<running_, local_queue, timers_, next_timer_id_, now, tnow,
                   expired_callbacks, next_timeout, fired, deadline,
                   cancelled>>
    /\ UNCHANGED notLoopIO

\* run, step 3, when epoll_wait fails with an error other than EINTR: poll
\* throws std::runtime_error, which run does not catch; the exception leaves
\* run with nothing else done.
LoopPollFails ==
    /\ lpc = "poll"
    /\ running_
    /\ lpc' = "thrown"
    /\ UNCHANGED <<running_, ready_queue_, local_queue, timers_,
                   next_timer_id_, now, tnow, expired_callbacks,
                   next_timeout, fired, deadline, cancelled>>
    /\ UNCHANGED notLoop

\* ----------------------------------------------------------- AsyncSocket
Socks == 1..MaxSocks

\* No AsyncSocket object yet and no descriptor open.
SockIdle ==
    /\ fd_ = [s \in Socks |-> 0]
    /\ sstate = [s \in Socks |-> "none"]
    /\ smoved = [s \in Socks |-> FALSE]
    /\ fdOpen = [fd \in Fds |-> FALSE]
    /\ closedTwice = [fd \in Fds |-> FALSE]
    /\ closedRegistered = [fd \in Fds |-> FALSE]

\* The poller's handlers, no socket operation under way.
SockPollerInit ==
    /\ kind = [f \in IOFrames |-> "read"]
    /\ sockfd = [f \in IOFrames |-> 1]
    /\ driver = [f \in IOFrames |-> "schedule"]
    /\ IOCreated

\* What the AsyncSocket operations leave alone.
notSock == <<taskVars, poolVars, loopVars, genVars, mapVars, drainVars,
             resumeVars, writeVars, stopVars, againVars,
             level, sockOpen, nev, kind, sockfd,
             driver, fpos, inside, workerResumedWaiting, raced,
             destroyedSuspended, resumedAfterDestroy, polledEvents, polled>>

\* AsyncSocket::is_open.
IsOpen(s) == fd_[s] # 0

\* close(): event_loop_.unregister(fd_) comes before ::close(fd_); the
\* handlers the poller holds when ::close is called.
HandlersAtCloseKept(fd) == handlers_
HandlersAtClose(fd) == HandlersErase(fd)

\* The source of a move: std::exchange(other.fd_, -1).
SockMoveSourceKept(src) == fd_[src]
SockMoveSource(src) == 0

\* AsyncSocket::close on the object holding descriptor fd (0: not open, and
\* close does nothing): unregister, ::close, fd_ = -1.  The effect on the
\* poller and the kernel's table.
CloseFd(fd) ==
    IF fd = 0
    THEN UNCHANGED <<handlers_, rdlist, lastReg, replaced, delivered, fdOpen,
                     closedTwice, closedRegistered>>
    ELSE /\ handlers_' = HandlersAtClose(fd)
         /\ rdlist' = [rdlist EXCEPT ![fd] = FALSE]
         /\ lastReg' = [lastReg EXCEPT ![fd] = NoReg]
         /\ delivered' = [delivered EXCEPT ![fd] = 0]
         /\ UNCHANGED replaced
         /\ fdOpen' = [fdOpen EXCEPT ![fd] = FALSE]
         /\ closedTwice' = [closedTwice EXCEPT ![fd] = @ \/ ~fdOpen[fd]]
         /\ closedRegistered' =
                [closedRegistered EXCEPT ![fd] =
                    @ \/ \E h \in HandlersAtClose(fd) : h.fd = fd]

\* AsyncSocket(): fd_(-1).
SockConstruct(s) ==
    /\ sstate[s] = "none"
    /\ sstate' = [sstate EXCEPT ![s] = "live"]
    /\ fd_' = [fd_ EXCEPT ![s] = 0]
    /\ UNCHANGED <<smoved, fdOpen, closedTwice, closedRegistered>>
    /\ UNCHANGED <<handlers_, rdlist, lastReg, replaced, delivered>>
    /\ UNCHANGED notSock

\* explicit AsyncSocket(int fd) with a descriptor just obtained (the result
\* of ::accept): the object owns it.
SockAdopt(s, fd) ==
    /\ sstate[s] = "none"
    /\ ~fdOpen[fd]
    /\ sstate' = [sstate EXCEPT ![s] = "live"]
    /\ fd_' = [fd_ EXCEPT ![s] = fd]
    /\ fdOpen' = [fdOpen EXCEPT ![fd] = TRUE]
    /\ UNCHANGED <<smoved, closedTwice, closedRegistered>>
    /\ UNCHANGED <<handlers_, rdlist, lastReg, replaced, delivered>>
    /\ UNCHANGED notSock

\* create(): close(), then fd_ = socket(...): the kernel hands out a free
\* descriptor (fd), or the call fails (fd = 0) and create raises with fd_
\* at -1.
SockCreate(s, fd) ==
    /\ sstate[s] = "live"
    /\ fd # 0 => (~fdOpen[fd] \/ fd = fd_[s])
    /\ LET old == fd_[s] IN
        IF old = 0
        THEN /\ fdOpen' = [g \in Fds |-> fdOpen[g] \/ g = fd]
             /\ UNCHANGED <<handlers_, rdlist, lastReg, replaced, delivered,
                            closedTwice, closedRegistered>>
        ELSE /\ handlers_' = HandlersAtClose(old)
             /\ rdlist' = [rdlist EXCEPT ![old] = FALSE]
             /\ lastReg' = [lastReg EXCEPT ![old] = NoReg]
             /\ delivered' = [delivered EXCEPT ![old] = 0]
             /\ UNCHANGED replaced
             /\ fdOpen' = [g \in Fds |-> (fdOpen[g] /\ g # old) \/ g = fd]
             /\ closedTwice' = [closedTwice EXCEPT ![old] = @ \/ ~fdOpen[old]]
             /\ closedRegistered' =
                    [closedRegistered EXCEPT ![old] =
                        @ \/ \E h \in HandlersAtClose(old) : h.fd = old]
    /\ fd_' = [fd_ EXCEPT ![s] = fd]
    /\ smoved' = [smoved EXCEPT ![s] = FALSE]
    /\ UNCHANGED sstate
    /\ UNCHANGED notSock

\* close().
SockClose(s) ==
    /\ sstate[s] = "live"
    /\ CloseFd(fd_[s])
    /\ fd_' = [fd_ EXCEPT ![s] = 0]
    /\ UNCHANGED <<sstate, smoved>>
    /\ UNCHANGED notSock

\* AsyncSocket(AsyncSocket&& other): fd_(std::exchange(other.fd_, -1)).
SockMoveConstruct(src, dst) ==
    /\ sstate[src] = "live"
    /\ sstate[dst] = "none"
    /\ sstate' = [sstate EXCEPT ![dst] = "live"]
    /\ fd_' = [fd_ EXCEPT ![dst] = fd_[src], ![src] = SockMoveSource(src)]
    /\ smoved' = [smoved EXCEPT ![src] = TRUE]
    /\ UNCHANGED <<fdOpen, closedTwice, closedRegistered>>
    /\ UNCHANGED <<handlers_, rdlist, lastReg, replaced, delivered>>
    /\ UNCHANGED notSock

\* operator=(AsyncSocket&& other): nothing on self-assignment, else close()
\* and fd_ = std::exchange(other.fd_, -1).
SockMoveAssign(dst, src) ==
    /\ sstate[src] = "live"
    /\ sstate[dst] = "live"
    /\ IF dst = src
       THEN UNCHANGED <<fd_, smoved, handlers_, rdlist, lastReg, replaced, delivered,
                        fdOpen, closedTwice, closedRegistered>>
       ELSE /\ CloseFd(fd_[dst])
            /\ fd_' = [fd_ EXCEPT ![dst] = fd_[src],
                                  ![src] = SockMoveSource(src)]
            /\ smoved' = [smoved EXCEPT ![src] = TRUE, ![dst] = FALSE]
    /\ UNCHANGED sstate
    /\ UNCHANGED notSock

\* ~AsyncSocket(): close().
SockDestroy(s) ==
    /\ sstate[s] = "live"
    /\ CloseFd(fd_[s])
    /\ fd_' = [fd_ EXCEPT ![s] = 0]
    /\ sstate' = [sstate EXCEPT ![s] = "gone"]
    /\ UNCHANGED smoved
    /\ UNCHANGED notSock

\* An awaiter of an operation on an open socket suspends: register_read or
\* register_write with the socket's descriptor.
SockRegister(s, f, events) ==
    /\ sstate[s] = "live"
    /\ IsOpen(s)
    /\ Register(fd_[s], f, events)
    /\ UNCHANGED sockVars
    /\ UNCHANGED notSock

SockNext ==
    \/ \E s \in Socks : SockConstruct(s)
    \/ \E s \in Socks, fd \in Fds : SockAdopt(s, fd)
    \/ \E s \in Socks, fd \in 0..MaxFd : SockCreate(s, fd)
    \/ \E s \in Socks : SockClose(s)
    \/ \E src \in Socks, dst \in Socks : SockMoveConstruct(src, dst)
    \/ \E dst \in Socks, src \in Socks : SockMoveAssign(dst, src)
    \/ \E s \in Socks : SockDestroy(s)
    \/ \E s \in Socks, f \in IOFrames, events \in {ReadMask, WriteMask} :
          SockRegister(s, f, events)

\* ------------------------------------------------------------- Generator
\* The bodies: up to MaxYields co_yield statements, each of an lvalue or of
\* an rvalue.
GenBodies == UNION {[1..n -> {"l", "r"}] : n \in 0..MaxYields}

\* The value the body yields at its i-th co_yield.
YieldedValue(i) == 10 + i

\* A generator function not yet called.
GenNotCreated ==
    /\ gpc = "none"
    /\ gidx = 0
    /\ value_ptr_ = "null"
    /\ slotLive = FALSE
    /\ slotVal = 0
    /\ frameVal = 0
    /\ gexception_ = FALSE
    /\ gconstructs = 0
    /\ gdestroys = 0
    /\ deadDestroy = FALSE
    /\ ran = 0
    /\ advances = 0
    /\ it = "none"
    /\ fresh = FALSE
    /\ out = <<>>
    /\ lastDeref = "none"
    /\ derefOn = "none"
    /\ lastRead = 0
    /\ lastRaised = FALSE

\* No generator in use.
GenIdle ==
    /\ gkinds = <<>>
    /\ gthrows = FALSE
    /\ gmoveThrows = FALSE
    /\ GenNotCreated

\* Any body, of any element type.
GenInit ==
    /\ gkinds \in GenBodies
    /\ gthrows \in BOOLEAN
    /\ gmoveThrows \in BOOLEAN
    /\ GenNotCreated

\* What the Generator operations leave alone.
notGen == <<taskVars, poolVars, loopVars, ioVars, sockVars, mapVars,
           drainVars, resumeVars, writeVars, stopVars, againVars>>

\* promise_type::initial_suspend returns std::suspend_always: its
\* await_ready.
GenInitialSuspendNever == TRUE
GenInitialSuspendReady == FALSE

\* if (value_ptr_ == std::addressof(stored_value_)) destroy_at(...): the
\* state of the slot after the test at the head of yield_value and in
\* ~promise_type.
DestroySlotIfCurrent ==
    IF value_ptr_ = "slot"
    THEN /\ gdestroys' = gdestroys + 1
         /\ deadDestroy' = (deadDestroy \/ ~slotLive)
    ELSE UNCHANGED <<gdestroys, deadDestroy>>

\* yield_value(const T&): the pointer after the call.
PtrAfterLvalueKept == value_ptr_
PtrAfterLvalue == "frame"

\* yield_value(T&&): the pointer after construct_at succeeded.
PtrAfterRvalueKept == value_ptr_
PtrAfterRvalue == "slot"

\* The body runs from where it is suspended to its next co_yield, or to its
\* end.  co_yield of an lvalue: yield_value(const T&) drops the slot's
\* object and points at the lvalue.  co_yield of an rvalue: yield_value(T&&)
\* drops the slot's object and move-constructs the new one; if T's move
\* constructor raises (moveRaises), the error leaves yield_value after the
\* destroy_at, with value_ptr_ as it was, and ends the body in
\* unhandled_exception.
RunSegment(moveRaises) ==
    /\ ran' = ran + 1
    /\ IF gidx < Len(gkinds)
       THEN LET k == gkinds[gidx + 1]
                v == YieldedValue(gidx + 1)
            IN
            /\ moveRaises => (gmoveThrows /\ k = "r")
            /\ DestroySlotIfCurrent
            /\ IF k = "l"
               THEN /\ frameVal' = v
                    /\ value_ptr_' = PtrAfterLvalue
                    /\ slotLive' = IF value_ptr_ = "slot" THEN FALSE
                                   ELSE slotLive
                    /\ gidx' = gidx + 1
                    /\ gpc' = "yielded"
                    /\ UNCHANGED <<slotVal, gconstructs, gexception_>>
               ELSE IF moveRaises
                    THEN /\ slotLive' = IF value_ptr_ = "slot" THEN FALSE
                                        ELSE slotLive
                         /\ gexception_' = TRUE
                         /\ gpc' = "final"
                         /\ UNCHANGED <<frameVal, value_ptr_, slotVal,
                                        gconstructs, gidx>>
                    ELSE /\ slotLive' = TRUE
                         /\ slotVal' = v
                         /\ gconstructs' = gconstructs + 1
                         /\ value_ptr_' = PtrAfterRvalue
                         /\ gidx' = gidx + 1
                         /\ gpc' = "yielded"
                         /\ UNCHANGED <<frameVal, gexception_>>
       ELSE /\ ~moveRaises
            /\ gexception_' = gthrows
            /\ gpc' = "final"
            /\ UNCHANGED <<gidx, value_ptr_, slotLive, slotVal, frameVal,
                           gconstructs, gdestroys, deadDestroy>>

\* The generator function is called: the frame is created and control comes
\* back at initial_suspend.
GenCreate(moveRaises) ==
    /\ gpc = "none"
    /\ IF GenInitialSuspendReady
       THEN RunSegment(moveRaises)
       ELSE /\ ~moveRaises
            /\ gpc' = "initial"
            /\ UNCHANGED <<gidx, value_ptr_, slotLive, slotVal, frameVal,
                           gexception_, gconstructs, gdestroys, deadDestroy,
                           ran>>
    /\ UNCHANGED <<gkinds, gthrows, gmoveThrows, advances, it, fresh, out,
                   lastDeref, derefOn, lastRead, lastRaised>>
    /\ UNCHANGED notGen

\* Generator::begin, called once: handle_.resume(), then
\* rethrow_if_exception if the frame is done.
GenBegin(moveRaises) ==
    /\ gpc = "initial"
    /\ it = "none"
    /\ RunSegment(moveRaises)
    /\ advances' = advances + 1
    /\ it' = "handle"
    /\ fresh' = TRUE
    /\ lastRaised' = (gpc' = "final" /\ gexception_')
    /\ UNCHANGED <<gkinds, gthrows, gmoveThrows, out, lastDeref, derefOn,
                   lastRead>>
    /\ UNCHANGED notGen

\* Iterator::operator++: resumes the frame unless it is done, then
\* rethrow_if_exception if it is done.
GenIncrement(moveRaises) ==
    /\ it = "handle"
    /\ gpc \in {"yielded", "final"}
    /\ IF gpc = "yielded"
       THEN /\ RunSegment(moveRaises)
            /\ advances' = advances + 1
            /\ fresh' = TRUE
            /\ lastRaised' = (gpc' = "final" /\ gexception_')
       ELSE /\ ~moveRaises
            /\ lastRaised' = FALSE
            /\ UNCHANGED <<gpc, gidx, value_ptr_, slotLive, slotVal, frameVal,
                           gexception_, gconstructs, gdestroys, deadDestroy,
                           ran, advances, fresh>>
    /\ UNCHANGED <<gkinds, gthrows, gmoveThrows, it, out, lastDeref, derefOn,
                   lastRead>>
    /\ UNCHANGED notGen

\* promise_type::value(): *value_ptr_.
CurrentValue == IF value_ptr_ = "slot" THEN slotVal ELSE frameVal

\* Iterator::operator*, whether it raises: !handle_ || handle_.done().
DerefRaisesNever(atEnd) == FALSE
DerefRaises(atEnd) == atEnd \/ gpc = "final"

\* Iterator::operator* on the iterator begin() returned, or on end()
\* (atEnd): raises std::runtime_error, or returns promise().value().
GenDeref(atEnd) ==
    /\ it = "handle"
    /\ gpc \in {"yielded", "final"}
    /\ derefOn' = IF atEnd THEN "end"
                  ELSE IF gpc = "final" THEN "finished" ELSE "live"
    /\ IF DerefRaises(atEnd)
       THEN /\ lastDeref' = "error"
            /\ lastRead' = 0
            /\ UNCHANGED <<out, fresh>>
       ELSE /\ lastDeref' = "value"
            /\ lastRead' = CurrentValue
            /\ out' = IF fresh THEN Append(out, CurrentValue) ELSE out
            /\ fresh' = FALSE
    /\ UNCHANGED <<gkinds, gthrows, gmoveThrows, gpc, gidx, value_ptr_,
                   slotLive, slotVal, frameVal, gexception_, gconstructs,
                   gdestroys, deadDestroy, ran, advances, it, lastRaised>>
    /\ UNCHANGED notGen

\* operator== of the iterator with end(): h.done().
AtEnd == gpc = "final"

\* ~Generator: handle_.destroy() runs ~promise_type, which drops the slot's
\* object if value_ptr_ points at the slot.
GenDestroy ==
    /\ gpc \in {"initial", "yielded", "final"}
    /\ DestroySlotIfCurrent
    /\ slotLive' = IF value_ptr_ = "slot" THEN FALSE ELSE slotLive
    /\ gpc' = "destroyed"
    /\ it' = "none"
    /\ UNCHANGED <<gkinds, gthrows, gmoveThrows, gidx, value_ptr_, slotVal,
                   frameVal, gexception_, gconstructs, ran, advances, fresh,
                   out, lastDeref, derefOn, lastRead, lastRaised>>
    /\ UNCHANGED notGen

GenNext ==
    \/ \E moveRaises \in BOOLEAN : GenCreate(moveRaises)
    \/ \E moveRaises \in BOOLEAN : GenBegin(moveRaises)
    \/ \E moveRaises \in BOOLEAN : GenIncrement(moveRaises)
    \/ \E atEnd \in BOOLEAN : GenDeref(atEnd)
    \/ GenDestroy

\* ------------------------------------------- EpollPoller::handlers_ access
\* The threads that call into the poller: the Reactor thread (poll, and
\* registrations made by continuations it resumes) and two other threads
\* (awaiters suspended on pool workers, sockets closed by their owners).
MapThreads == {"reactor", "worker", "worker2"}

\* No thread is inside a poller call.
MapIdle ==
    /\ mpc = [t \in MapThreads |-> "idle"]
    /\ marg = [t \in MapThreads |-> 0]

\* What the poller calls leave alone.
notMap == <<taskVars, poolVars, loopVars, sockVars, genVars, drainVars,
            resumeVars, writeVars, stopVars, againVars,
            level, sockOpen,
            nev, kind, sockfd, driver, fpos, inside, workerResumedWaiting,
            raced, destroyedSuspended, resumedAfterDestroy, polledEvents,
            polled>>

\* The mutex register_read / register_write / unregister and poll take
\* around handlers_: none.
HandlersLocked == FALSE

\* A thread may enter its access of handlers_: always, unless a lock is
\* held by a thread that is inside.
MayEnterMap(t) ==
    HandlersLocked => \A u \in MapThreads \ {t} : mpc[u] = "idle"

\* register_read(fd, coro) is called: poller_.has(fd) reads handlers_.
RegisterCall(t, fd) ==
    /\ mpc[t] = "idle"
    /\ MayEnterMap(t)
    /\ mpc' = [mpc EXCEPT ![t] = "has"]
    /\ marg' = [marg EXCEPT ![t] = fd]
    /\ UNCHANGED <<handlers_, rdlist, lastReg, replaced, delivered>>
    /\ UNCHANGED notMap

\* has(fd) returned and epoll_ctl (ADD or MOD) succeeded: add / modify
\* begins handlers_[fd] = EventHandler{coro, events}.
RegisterStoreBegin(t) ==
    /\ mpc[t] = "has"
    /\ mpc' = [mpc EXCEPT ![t] = "store"]
    /\ UNCHANGED <<marg, handlers_, rdlist, lastReg, replaced, delivered>>
    /\ UNCHANGED notMap

\* The assignment to handlers_[fd] is complete and register_read returns.
RegisterStoreEnd(t, coro) ==
    /\ mpc[t] = "store"
    /\ Register(marg[t], coro, ReadMask)
    /\ mpc' = [mpc EXCEPT ![t] = "idle"]
    /\ marg' = [marg EXCEPT ![t] = 0]
    /\ UNCHANGED notMap

\* unregister(fd) is called: after epoll_ctl DEL, remove begins
\* handlers_.erase(fd).
UnregisterCall(t, fd) ==
    /\ mpc[t] = "idle"
    /\ MayEnterMap(t)
    /\ mpc' = [mpc EXCEPT ![t] = "erase"]
    /\ marg' = [marg EXCEPT ![t] = fd]
    /\ UNCHANGED <<handlers_, rdlist, lastReg, replaced, delivered>>
    /\ UNCHANGED notMap

\* The erase is complete and unregister returns.
UnregisterEnd(t) ==
    /\ mpc[t] = "erase"
    /\ Unregister(marg[t])
    /\ mpc' = [mpc EXCEPT ![t] = "idle"]
    /\ marg' = [marg EXCEPT ![t] = 0]
    /\ UNCHANGED notMap

\* poll on the Reactor thread: epoll_wait returned an event for fd and the
\* loop begins handlers_.find(fd).
PollFindBegin(fd) ==
    /\ mpc["reactor"] = "idle"
    /\ MayEnterMap("reactor")
    /\ mpc' = [mpc EXCEPT !["reactor"] = "find"]
    /\ marg' = [marg EXCEPT !["reactor"] = fd]
    /\ UNCHANGED <<handlers_, rdlist, lastReg, replaced, delivered>>
    /\ UNCHANGED notMap

\* The lookup is complete.
PollFindEnd ==
    /\ mpc["reactor"] = "find"
    /\ mpc' = [mpc EXCEPT !["reactor"] = "idle"]
    /\ marg' = [marg EXCEPT !["reactor"] = 0]
    /\ UNCHANGED <<handlers_, rdlist, lastReg, replaced, delivered>>
    /\ UNCHANGED notMap

MapNext ==
    \/ \E t \in MapThreads, fd \in Fds : RegisterCall(t, fd)
    \/ \E t \in MapThreads : RegisterStoreBegin(t)
    \/ \E t \in MapThreads, coro \in IOFrames : RegisterStoreEnd(t, coro)
    \/ \E t \in MapThreads, fd \in Fds : UnregisterCall(t, fd)
    \/ \E t \in MapThreads : UnregisterEnd(t)
    \/ \E fd \in Fds : PollFindBegin(fd)
    \/ PollFindEnd

\* ------------------------------------------------ EventLoop::schedule
\* No schedule() call made yet.
DrainIdle == enqLog = <<>>

\* What schedule() leaves alone, the loop's own state apart.
notDrain == <<taskVars, poolVars, ioVars, sockVars, genVars, mapVars,
              resumeVars, writeVars, stopVars, againVars>>

\* schedule(coro), from any thread: push_back under mutex_.  coro is a
\* frame, or 0 for a null handle.
Schedule(coro) ==
    /\ Len(enqLog) < MaxSchedules
    /\ ready_queue_' = Append(ready_queue_, coro)
    /\ enqLog' = Append(enqLog, coro)
    /\ UNCHANGED <<running_, lpc, local_queue, timers_, next_timer_id_, now,
                   tnow, expired_callbacks, next_timeout, fired, deadline,
                   cancelled>>
    /\ UNCHANGED notDrain

\* ------------------------------------- sync_wait racing the Reactor
\* No sync_wait between its test and its resume.
ResumeIdle ==
    /\ checked = [f \in IOFrames |-> FALSE]
    /\ resumedDone = [f \in IOFrames |-> FALSE]

\* async_run's runner on a worker, in Task::sync_wait: the test
\* !coro_.done() of the if or of the while is read as true.
SyncWaitTest(f) ==
    /\ driver[f] = "async_run"
    /\ inside[f]["worker"] = "out"
    /\ ~checked[f]
    /\ SyncWaitLoop(f)
    /\ checked' = [checked EXCEPT ![f] = TRUE]
    /\ UNCHANGED resumedDone
    /\ UNCHANGED <<taskVars, poolVars, loopVars, ioVars, sockVars, genVars,
                   mapVars, drainVars, writeVars, stopVars, againVars>>

\* ... and then coro_.resume() is called, on the frame as it is by now.
SyncWaitCallsResume(f) ==
    /\ checked[f]
    /\ checked' = [checked EXCEPT ![f] = FALSE]
    /\ IF fpos[f] = "final"
       THEN /\ resumedDone' = [resumedDone EXCEPT ![f] = TRUE]
            /\ UNCHANGED <<inside, raced, workerResumedWaiting>>
       ELSE /\ Enter("worker", f)
            /\ workerResumedWaiting' =
                   [workerResumedWaiting EXCEPT ![f] = @ \/ fpos[f] = "awaiter"]
            /\ UNCHANGED resumedDone
    /\ UNCHANGED <<handlers_, level, rdlist, sockOpen, nev, kind, sockfd,
                   driver, fpos, destroyedSuspended, resumedAfterDestroy,
                   lastReg, replaced, delivered>>
    /\ UNCHANGED pollVars
    /\ UNCHANGED <<taskVars, poolVars, loopVars, sockVars, genVars, mapVars,
                   drainVars, writeVars, stopVars, againVars>>

\* ------------------------------------------------ AsyncSocket::write
\* No write call in progress.
WriteIdle ==
    /\ wlen = 0
    /\ total_written = 0
    /\ wrpc = "none"
    /\ space = 0
    /\ accepted = 0
    /\ lastResult = "none"
    /\ wresult = 0
    /\ everBlocked = FALSE

\* write(data, len) entered: size_t total_written = 0, on a socket whose send
\* buffer has some room or none.
WriteInit ==
    /\ wlen \in 0..MaxWriteLen
    /\ total_written = 0
    /\ wrpc = "loop"
    /\ space \in 0..MaxSpace
    /\ accepted = 0
    /\ lastResult = "none"
    /\ wresult = 0
    /\ everBlocked = FALSE

notWrite == <<taskVars, poolVars, loopVars, ioVars, sockVars, genVars,
              mapVars, drainVars, resumeVars, stopVars, againVars>>

Min(a, b) == IF a < b THEN a ELSE b

\* total_written += n
CursorAfterStale(cursor, n) == n
CursorAfter(cursor, n) == cursor + n

\* while (total_written < len): ::write(fd_, data + total_written,
\* len - total_written) takes n bytes, at least one and at most what was
\* asked for and what the buffer has room for.
WriteTakes(n) ==
    /\ wrpc = "loop"
    /\ total_written < wlen
    /\ n \in 1..Min(wlen - total_written, space)
    /\ total_written' = CursorAfter(total_written, n)
    /\ accepted' = accepted + n
    /\ space' = space - n
    /\ lastResult' = "ok"
    /\ UNCHANGED <<wlen, wrpc, wresult, everBlocked>>
    /\ UNCHANGED notWrite

\* ::write gives -1 with EAGAIN / EWOULDBLOCK: co_await WriteAwaiter.
WriteWouldBlock ==
    /\ wrpc = "loop"
    /\ total_written < wlen
    /\ space = 0
    /\ wrpc' = "awaiting"
    /\ lastResult' = "again"
    /\ everBlocked' = TRUE
    /\ UNCHANGED <<wlen, total_written, space, accepted, wresult>>
    /\ UNCHANGED notWrite

\* ::write gives -1 with any other errno: throw std::runtime_error.
WriteFails ==
    /\ wrpc = "loop"
    /\ total_written < wlen
    /\ wrpc' = "thrown"
    /\ lastResult' = "error"
    /\ UNCHANGED <<wlen, total_written, space, accepted, wresult,
                   everBlocked>>
    /\ UNCHANGED notWrite

\* The while test fails: co_return total_written.
WriteReturns ==
    /\ wrpc = "loop"
    /\ ~(total_written < wlen)
    /\ wrpc' = "returned"
    /\ wresult' = total_written
    /\ UNCHANGED <<wlen, total_written, space, accepted, lastResult,
                   everBlocked>>
    /\ UNCHANGED notWrite

\* The frame is resumed out of WriteAwaiter (by the Reactor, after any event
\* on the descriptor): continue.
WriteResumed ==
    /\ wrpc = "awaiting"
    /\ wrpc' = "loop"
    /\ UNCHANGED <<wlen, total_written, space, accepted, lastResult, wresult,
                   everBlocked>>
    /\ UNCHANGED notWrite

\* The peer reads: k more bytes of room in the send buffer.
PeerReads(k) ==
    /\ wrpc \in {"loop", "awaiting"}
    /\ space + k <= MaxSpace
    /\ space' = space + k
    /\ UNCHANGED <<wlen, total_written, wrpc, accepted, lastResult, wresult,
                   everBlocked>>
    /\ UNCHANGED notWrite

\* ---------------------------------------------------- EventLoop::stop
\* stop() was never called.
StopIdle == stopCalls = 0

\* stop(), from any thread and at any time, also when run() has not been
\* entered: running_ = false.
StopCall ==
    /\ stopCalls < MaxStopCalls
    /\ stopCalls' = stopCalls + 1
    /\ running_' = FALSE
    /\ UNCHANGED <<lpc, ready_queue_, local_queue, timers_, next_timer_id_,
                   now, tnow, expired_callbacks, next_timeout, fired,
                   deadline, cancelled>>
    /\ UNCHANGED <<taskVars, poolVars, ioVars, sockVars, genVars, mapVars,
                   drainVars, resumeVars, writeVars, againVars>>

\* The steps of the thread inside run(): it keeps running, and the timer
\* callbacks return.
RunStep ==
    \/ LoopTop
    \/ ProcessTimers
    \/ FireTimer
    \/ ComputeTimeout
    \/ LoopPoll

\* ------------------------------------------- Generator::begin() again
AgainIdle == resumedFinished = FALSE

\* begin() on a generator that begin() was already called on: if (handle_)
\* handle_.resume(), with no test of done().  On a frame suspended at a
\* co_yield this runs the next segment; on a frame at its final suspension
\* the resume is undefined: it may do nothing or end the program.
GenBeginAgain(moveRaises) ==
    /\ it = "handle"
    /\ gpc \in {"yielded", "final"}
    /\ ~resumedFinished
    /\ IF gpc = "yielded"
       THEN /\ RunSegment(moveRaises)
            /\ advances' = advances + 1
            /\ fresh' = TRUE
            /\ lastRaised' = (gpc' = "final" /\ gexception_')
            /\ UNCHANGED resumedFinished
       ELSE /\ ~moveRaises
            /\ resumedFinished' = TRUE
            /\ gpc' \in {"final", "destroyed"}
            /\ UNCHANGED <<gidx, value_ptr_, slotLive, slotVal, frameVal,
                           gexception_, gconstructs, gdestroys, deadDestroy,
                           ran, advances, fresh, lastRaised>>
    /\ UNCHANGED <<gkinds, gthrows, gmoveThrows, it, out, lastDeref, derefOn,
                   lastRead>>
    /\ UNCHANGED <<taskVars, poolVars, loopVars, ioVars, sockVars, mapVars,
                   drainVars, resumeVars, writeVars, stopVars>>

\* ------------------------------------------------------- specifications
TimerNext ==
    \/ \E delay \in 0..MaxDelay : AddTimer(delay)
    \/ \E id \in 0..MaxTimers : CancelTimer(id)
    \/ Tick
    \/ Run
    \/ Stop
    \/ LoopTop
    \/ ProcessTimers
    \/ FireTimer
    \/ ComputeTimeout
    \/ LoopPoll

IONext ==
    \/ \E fd \in Fds, ks \in SUBSET Kinds : KernelEvent(fd, ks)
    \/ \E f \in IOFrames : WorkerSyncWait(f)
    \/ \E f \in IOFrames : WorkerScheduled(f)
    \/ \E t \in Threads, f \in IOFrames : BodyStep(t, f)
    \/ \E f \in IOFrames : RunnerDone(f)
    \/ \E f \in IOFrames, closeSocket \in BOOLEAN : DestroyTask(f, closeSocket)
    \/ \E afterFree \in BOOLEAN : LoopResume(afterFree)
    \/ Run
    \/ Stop
    \/ LoopTop
    \/ ProcessTimers
    \/ ComputeTimeout
    \/ LoopPoll

InitTask == TaskInit /\ PoolInit /\ LoopInit /\ IOIdle /\ SockIdle /\ GenIdle /\ MapIdle /\ DrainIdle /\ ResumeIdle /\ WriteIdle /\ StopIdle /\ AgainIdle

SpecTask == InitTask /\ [][TaskNext]_vars

\* A thread that only calls sync_wait, and keeps running: a step that can be
\* taken is taken.
SyncWaitNext ==
    \/ \E f \in Frames : RunBody(f)
    \/ \E f \in Frames : AwaitResume(f)
    \/ \E f \in Frames : RunLast(f)
    \/ \E t \in TaskObjs, via \in {"sync_wait", "async_run"} :
          SyncWaitBegin(t, via)
    \/ SyncWaitResume
    \/ SyncWaitReturn

SpecTaskLive == InitTask /\ [][SyncWaitNext]_vars /\ WF_vars(SyncWaitNext)

InitOwn == TaskNotCreated /\ PoolInit /\ LoopInit /\ IOIdle /\ SockIdle /\ GenIdle /\ MapIdle /\ DrainIdle /\ ResumeIdle /\ WriteIdle /\ StopIdle /\ AgainIdle

SpecOwn == InitOwn /\ [][OwnNext]_vars

InitPool == TaskIdle /\ PoolInit /\ LoopInit /\ IOIdle /\ SockIdle /\ GenIdle /\ MapIdle /\ DrainIdle /\ ResumeIdle /\ WriteIdle /\ StopIdle /\ AgainIdle

SpecPool == InitPool /\ [][PoolNext]_vars

\* The pool used with plain closures only, its worker threads kept running:
\* a worker that can take a step (take a closure, invoke it, return to its
\* wait, exit) takes one.
ClosureNext ==
    \/ \E throws \in BOOLEAN : Submit(throws)
    \/ \E w \in Workers : WorkerExit(w)
    \/ \E w \in Workers : WorkerTake(w)
    \/ \E w \in Workers : WorkerInvoke(w)
    \/ \E w \in Workers : FinishClosure(w)
    \/ ShutdownBegin
    \/ ShutdownJoined

WorkerStep ==
    \E w \in Workers :
        \/ WorkerExit(w)
        \/ WorkerTake(w)
        \/ WorkerInvoke(w)
        \/ FinishClosure(w)

SpecPoolLive == InitPool /\ [][ClosureNext]_vars /\ WF_vars(WorkerStep)

InitTimer == TaskIdle /\ PoolInit /\ LoopInit /\ IOIdle /\ SockIdle /\ GenIdle /\ MapIdle /\ DrainIdle /\ ResumeIdle /\ WriteIdle /\ StopIdle /\ AgainIdle

SpecTimer == InitTimer /\ [][TimerNext]_vars

InitIO == TaskIdle /\ PoolInit /\ LoopInit /\ IOInit /\ SockIdle /\ GenIdle /\ MapIdle /\ DrainIdle /\ ResumeIdle /\ WriteIdle /\ StopIdle /\ AgainIdle

SpecIO == InitIO /\ [][IONext]_vars

InitSock == TaskIdle /\ PoolInit /\ LoopInit /\ SockPollerInit /\ SockIdle /\ GenIdle /\ MapIdle /\ DrainIdle /\ ResumeIdle /\ WriteIdle /\ StopIdle /\ AgainIdle

SpecSock == InitSock /\ [][SockNext]_vars

InitGen ==
    TaskIdle /\ PoolInit /\ LoopInit /\ IOIdle /\ SockIdle /\ GenInit
        /\ MapIdle /\ DrainIdle /\ ResumeIdle /\ WriteIdle /\ StopIdle /\ AgainIdle

SpecGen == InitGen /\ [][GenNext]_vars

InitMap ==
    TaskIdle /\ PoolInit /\ LoopInit /\ SockPollerInit /\ SockIdle /\ GenIdle
        /\ MapIdle /\ DrainIdle /\ ResumeIdle /\ WriteIdle /\ StopIdle /\ AgainIdle

SpecMap == InitMap /\ [][MapNext]_vars

\* Socket reads, one per descriptor, each started through
\* Scheduler::schedule and left alone by its owner, with a loop thread that
\* keeps running once it is in run().
IOReadInit ==
    /\ kind = [f \in IOFrames |-> "read"]
    /\ sockfd \in [IOFrames -> Fds]
    /\ \A f \in IOFrames, g \in IOFrames : f # g => sockfd[f] # sockfd[g]
    /\ sockfd[1] = 1
    /\ driver = [f \in IOFrames |-> "schedule"]
    /\ IOCreated

InitIORead == TaskIdle /\ PoolInit /\ LoopInit /\ IOReadInit /\ SockIdle /\ GenIdle /\ MapIdle /\ DrainIdle /\ ResumeIdle /\ WriteIdle /\ StopIdle /\ AgainIdle

IOReadNext ==
    \/ \E fd \in Fds, ks \in SUBSET Kinds : KernelEvent(fd, ks)
    \/ \E f \in IOFrames : WorkerScheduled(f)
    \/ \E t \in Threads, f \in IOFrames : BodyStep(t, f)
    \/ \E afterFree \in BOOLEAN : LoopResume(afterFree)
    \/ Run
    \/ Stop
    \/ LoopTop
    \/ ProcessTimers
    \/ ComputeTimeout
    \/ LoopPoll

\* The same run, with readiness changes after a delivery.
IOAgainNext ==
    \/ \E fd \in Fds, ks \in SUBSET Kinds : KernelEvent(fd, ks)
    \/ \E fd \in Fds, ks \in SUBSET Kinds : KernelEventAfterDelivery(fd, ks)
    \/ \E f \in IOFrames : WorkerScheduled(f)
    \/ \E t \in Threads, f \in IOFrames : BodyStep(t, f)
    \/ \E afterFree \in BOOLEAN : LoopResume(afterFree)
    \/ Run
    \/ Stop
    \/ LoopTop
    \/ ProcessTimers
    \/ ComputeTimeout
    \/ LoopPoll

SpecIOAgain == InitIORead /\ [][IOAgainNext]_vars

\* The same run, with a multiplexer that can fail.
IOFailNext ==
    \/ \E fd \in Fds, ks \in SUBSET Kinds : KernelEvent(fd, ks)
    \/ \E f \in IOFrames : WorkerScheduled(f)
    \/ \E t \in Threads, f \in IOFrames : BodyStep(t, f)
    \/ \E afterFree \in BOOLEAN : LoopResume(afterFree)
    \/ Run
    \/ Stop
    \/ LoopTop
    \/ ProcessTimers
    \/ ComputeTimeout
    \/ LoopPoll
    \/ LoopPollFails

SpecIOFail == InitIORead /\ [][IOFailNext]_vars

\* The Reactor loop with schedule() called from other threads.
DrainNext ==
    \/ \E coro \in {0} \cup IOFrames : Schedule(coro)
    \/ \E f \in IOFrames : BodyStep("reactor", f)
    \/ \E afterFree \in BOOLEAN : LoopResume(afterFree)
    \/ Run
    \/ Stop
    \/ LoopTop
    \/ ProcessTimers
    \/ ComputeTimeout
    \/ LoopPoll

\* Socket reads driven by async_run (sync_wait on a worker) and by the
\* Reactor loop, with sync_wait's test and resume as separate steps.
ResumeInit ==
    /\ kind = [f \in IOFrames |-> "read"]
    /\ sockfd \in [IOFrames -> Fds]
    /\ \A f \in IOFrames, g \in IOFrames : f # g => sockfd[f] # sockfd[g]
    /\ sockfd[1] = 1
    /\ driver = [f \in IOFrames |-> "async_run"]
    /\ IOCreated

InitResume ==
    TaskIdle /\ PoolInit /\ LoopInit /\ ResumeInit /\ SockIdle /\ GenIdle
        /\ MapIdle /\ DrainIdle /\ ResumeIdle /\ WriteIdle /\ StopIdle /\ AgainIdle

ResumeNext ==
    \/ \E fd \in Fds, ks \in SUBSET Kinds : KernelEvent(fd, ks)
    \/ \E f \in IOFrames : SyncWaitTest(f)
    \/ \E f \in IOFrames : SyncWaitCallsResume(f)
    \/ \E t \in Threads, f \in IOFrames : BodyStep(t, f)
    \/ \E afterFree \in BOOLEAN : LoopResume(afterFree)
    \/ Run
    \/ Stop
    \/ LoopTop
    \/ ProcessTimers
    \/ ComputeTimeout
    \/ LoopPoll

SpecResume == InitResume /\ [][ResumeNext]_vars

\* The steps of the thread in run().
LoopStep ==
    \/ LoopTop
    \/ \E afterFree \in BOOLEAN : LoopResume(afterFree)
    \/ \E f \in IOFrames : BodyStep("reactor", f)
    \/ ProcessTimers
    \/ ComputeTimeout
    \/ LoopPoll

SpecIORead == InitIORead /\ [][IOReadNext]_vars /\ WF_vars(LoopStep)

\* Frames that are suspended at their start or have already finished (run
\* to the end by their owners), one socket each.
DrainInit ==
    /\ kind = [f \in IOFrames |-> "read"]
    /\ sockfd \in [IOFrames -> Fds]
    /\ \A f \in IOFrames, g \in IOFrames : f # g => sockfd[f] # sockfd[g]
    /\ sockfd[1] = 1
    /\ driver = [f \in IOFrames |-> "schedule"]
    /\ PollerCreated
    /\ fpos \in [IOFrames -> {"initial", "final"}]

InitDrain ==
    TaskIdle /\ PoolInit /\ LoopInit /\ DrainInit /\ SockIdle /\ GenIdle
        /\ MapIdle /\ DrainIdle /\ ResumeIdle /\ WriteIdle /\ StopIdle /\ AgainIdle

\* The thread in run() keeps running while other threads call schedule().
SpecDrain == InitDrain /\ [][DrainNext]_vars /\ WF_vars(LoopStep)

\* ------------------------------------------------------------- claims
\* Frame b suspended on its child: the child holds b as its continuation.
SuspendedOnChild(b) == b < MaxFrames /\ continuation_[Child(b)] = b

\* C1: when Task B awaits a not-yet-complete Task A, B's continuation is
\* stored in A; B is resumed exactly once, by A's final suspension, only
\* after A's result slot holds a value or an error; the co_await expression
\* then yields A's value or re-raises A's error.
C1_AwaitHandoff ==
    \A b \in Frames :
        /\ pc[b] = "awaiting" => SuspendedOnChild(b)
        /\ SuspendedOnChild(b) =>
            LET a == Child(b) IN
            /\ resumes[b] = (IF Done(a) THEN 1 ELSE 0)
            /\ resumes[b] = 1 =>
                /\ resumer[b] = "final_suspend"
                /\ body[a].type # "void" =>
                       has_value_[a] \/ exception_[a] # 0
            /\ pc[b] \in {"last", "final"} => got[b] = produced[a]
            /\ got[b].kind # "none" => got[b] = produced[a]

\* A frame that suspended on a not-yet-complete child has been resumed by the
\* child's final suspension and has read an error the child raised.
C1_Witness ==
    \E b \in Frames :
        /\ SuspendedOnChild(b)
        /\ resumes[b] = 1
        /\ got[b].kind = "error"
        /\ pc[b] = "final"

\* Submitted closures that submit accepted (stop_ was not set at the call).
Accepted(c) == c <= nsub /\ ~afterStop[c]

\* Workers holding closure c in their `task`.
Holders(c) == {w \in Workers : wtask[w] = c}

\* Occurrences of closure c in the queue.
QueueCount(c) ==
    Cardinality({i \in 1..Len(task_queue_) : task_queue_[i] = c})

\* The closure async_run itself submitted for anchor a (copies come later).
AsyncRunClosure(a) ==
    CHOOSE c \in Closures :
        /\ payload[c] = a
        /\ \A d \in Closures : d < c => payload[d] # a

\* C3: for a Task whose body does not hand off to another thread, the future
\* of async_run is fulfilled exactly once, with the Task's value if the body
\* returned and with its error if it raised; the body is run exactly once
\* even when the runner closure is invoked more than once.
C3_FutureFulfilledOnce ==
    \A a \in Anchors :
        /\ promiseSets[a] <= 1
        /\ bodyRuns[a] <= 1
        /\ future[a] = "value" =>
            ~bodyThrows[a] /\ promiseSets[a] = 1 /\ bodyRuns[a] = 1
        /\ future[a] = "error" =>
            bodyThrows[a] /\ promiseSets[a] = 1 /\ bodyRuns[a] = 1
        /\ (a <= nanchor /\ ~detached[a] /\ Accepted(AsyncRunClosure(a))
                /\ refs[a] = 0) =>
            future[a] \in {"value", "error"}

\* The runner was invoked twice, the second invocation was turned away, and
\* the future holds the error the body raised.
C3_Witness ==
    \E a \in Anchors :
        /\ casFails[a] >= 1
        /\ refs[a] = 0
        /\ future[a] = "error"

\* C4: every closure accepted by submit is taken from the queue by exactly
\* one worker and run exactly once, to completion on that worker; no closure
\* is run twice or by two workers.
C4_ExactlyOnce ==
    \A c \in Closures :
        LET finished == IF finishedBy[c] # 0 THEN 1 ELSE 0 IN
        /\ runs[c] <= 1
        /\ Cardinality(Holders(c)) <= 1
        /\ runs[c] = Cardinality(Holders(c)) + finished
        /\ Accepted(c) => QueueCount(c) + runs[c] = 1
        /\ finishedBy[c] # 0 => finishedBy[c] = startedBy[c]
        /\ Holders(c) # {} => Holders(c) = {startedBy[c]}

\* Two workers are running two closures at once while a third closure has
\* already been run to completion.
C4_Witness ==
    \E c1, c2, c3 \in Closures :
        /\ c1 # c2
        /\ Holders(c1) # {} /\ Holders(c2) # {}
        /\ finishedBy[c3] # 0

C6_SubmitAfterStopRejected ==
    /\ [](\A c \in Closures :
            afterStop[c] =>
                /\ QueueCount(c) = 0
                /\ Holders(c) = {}
                /\ runs[c] = 0)
    /\ [][(stop_ /\ nsub' # nsub) => task_queue_' = task_queue_]_vars

\* A closure was handed to submit after stop_ was set while a worker was
\* still running an earlier closure.
C6_Witness ==
    \E c \in Closures :
        /\ afterStop[c]
        /\ payload[c] = 0
        /\ \E w \in Workers : wpc[w] = "run"

\* async_run was called for anchor a when stop_ was already set.
RunnerDropped(a) ==
    a <= nanchor /\ ~detached[a] /\ afterStop[AsyncRunClosure(a)]

\* C7 as stated: after async_run on a shut-down executor the future never
\* becomes ready, neither with a value nor with an error.
C7_FutureNeverReady ==
    \A a \in Anchors : RunnerDropped(a) => future[a] = "pending"

\* C7 amended: the runner is dropped and the body never runs, so the future
\* never holds the Task's value or error; the dropped runner releases the
\* anchor, whose abandoned promise makes the future ready with broken_promise.
C7_DroppedRunnerBreaksPromise ==
    \A a \in Anchors :
        RunnerDropped(a) =>
            /\ QueueCount(AsyncRunClosure(a)) = 0
            /\ runs[AsyncRunClosure(a)] = 0
            /\ bodyRuns[a] = 0
            /\ promiseSets[a] = 0
            /\ refs[a] = 0
            /\ future[a] = "broken_promise"

\* async_run was called after shutdown had returned.
C7_Witness ==
    \E a \in Anchors : RunnerDropped(a) /\ sdpc = "returned"

C8_TimerOrder ==
    \A i \in 1..Len(fired) : \A j \in 1..Len(fired) :
        deadline[fired[i]] < deadline[fired[j]] => i < j

\* C9: once a Task was destroyed while suspended on a socket awaiter, no
\* handler of the poller refers to its frame, no queue of the loop holds its
\* continuation, and the frame is not resumed.
SeqHolds(q, f) == \E i \in 1..Len(q) : q[i] = f

C9_DestroyedTaskForgotten ==
    \A f \in IOFrames :
        destroyedSuspended[f] =>
            /\ \A h \in handlers_ : h.coro # f
            /\ ~SeqHolds(ready_queue_, f)
            /\ ~SeqHolds(local_queue, f)
            /\ ~resumedAfterDestroy[f]

\* C10: the poller stores at most one (mask, continuation) pair per
\* descriptor, and it is the pair of the last registration: a registration
\* for a descriptor that has a pending continuation replaces both the mask
\* and the continuation, and nothing of the replaced pair is kept.
HandlersOf(fd) == {h \in handlers_ : h.fd = fd}

C10_OneHandlerPerDescriptor ==
    \A fd \in Fds :
        /\ Cardinality(HandlersOf(fd)) <= 1
        /\ HandlersOf(fd) =
               IF lastReg[fd] = NoReg THEN {}
               ELSE {[fd |-> fd, coro |-> lastReg[fd].coro,
                      events |-> lastReg[fd].events]}

\* A registration replaced the pending continuation of another frame, with
\* another mask, and the descriptor is still registered.
C10_Witness ==
    \E fd \in Fds : replaced[fd] /\ Has(fd)

\* C11: within one poll cycle the pending continuation of a descriptor is
\* enqueued at most once, however many conditions (read and hang-up
\* together, say) the multiplexer reports for that descriptor in the cycle,
\* and not at all for a descriptor with nothing reported.
PolledFor(fd) == {i \in 1..Len(polled) : polled[i].fd = fd}

C11_EnqueuedOncePerCycle ==
    \A fd \in Fds :
        /\ Cardinality(PolledFor(fd)) <= 1
        /\ polledEvents[fd] = {} => PolledFor(fd) = {}

\* One poll reported two conditions for a descriptor and made its
\* continuation ready.
C11_Witness ==
    \E fd \in Fds :
        /\ Cardinality(polledEvents[fd]) >= 2
        /\ PolledFor(fd) # {}

\* C12: every observation of a completed Task's result (each co_await of it,
\* each sync_wait call, each result() call) yields the same value, or raises
\* the same error, as the first observation.
C12_SameResultEveryTime ==
    \A f \in Frames :
        seenCount[f] >= 1 => lastSeen[f] = firstSeen[f]

\* C13: at its final suspension a frame's result slot holds exactly one of a
\* value or an error, written exactly once during the body's run (in a
\* Task<void>: nothing, or an error); nothing is written before the body
\* ends, and has_value_ / exception_ never change after the final
\* suspension.
SlotWrittenOnce(f) ==
    /\ writes[f] <= 1
    /\ ~(has_value_[f] /\ exception_[f] # 0)
    /\ Done(f) =>
          IF body[f].type = "void"
          THEN /\ ~has_value_[f]
               /\ writes[f] = (IF exception_[f] # 0 THEN 1 ELSE 0)
          ELSE /\ writes[f] = 1
               /\ has_value_[f] \/ exception_[f] # 0
    /\ pc[f] \in {"initial", "awaiting", "resumed", "last"} =>
          /\ writes[f] = 0
          /\ ~has_value_[f]
          /\ exception_[f] = 0

OwnOutcomeOf(f, awaited) ==
    IF body[f].throws THEN ErrorOutcome(f)
    ELSE IF body[f].type = "void" THEN NoOutcome
    ELSE ValueOutcome(IF ~body[f].awaits THEN f
                      ELSE IF awaited.kind = "value" THEN awaited.v + 10
                      ELSE 0)

OwnOutcome(f) == OwnOutcomeOf(f, got[f])

ErrorCaptured(f) ==
    /\ produced[f].kind = "error" =>
          /\ Done(f)
          /\ exception_[f] = produced[f].v
          /\ swResult[f] \in {NoOutcome, produced[f]}
          /\ asyncFuture[f] \in {NoOutcome, produced[f]}
          /\ seenCount[f] >= 1 => lastSeen[f] = produced[f]
    /\ (f < MaxFrames /\ body[f].awaits /\ pc[f] \in {"last", "final"}
            /\ produced[Child(f)].kind = "error") =>
          got[f] = produced[Child(f)]
    /\ (Done(f) /\ got[f].kind = "error") =>
          produced[f] = (IF body[f].catches THEN OwnOutcome(f) ELSE got[f])
    /\ exception_[f] # 0 =>
          \/ exception_[f] = f /\ body[f].throws
          \/ /\ body[f].awaits /\ ~body[f].catches
             /\ got[f] = ErrorOutcome(exception_[f])

C14_ErrorsStoredAndReraised ==
    /\ ~escaped
    /\ \A f \in Frames : ErrorCaptured(f)

\* The error of the innermost body went up the whole chain, uncaught at each
\* co_await, and came out of sync_wait into async_run's future.
C14_Witness ==
    /\ asyncFuture[1] = ErrorOutcome(MaxFrames)
    /\ swCalls = 1

\* C15: awaiting or sync_wait-ing a moved-from (null-frame) Task produces an
\* error returned to the caller at once, without resuming or reading any
\* frame.
C15_NullTaskReturnsError ==
    \A t \in TaskObjs : nullUse[t] \in {"none", "error"}

\* C16: every live frame is referred to by exactly one Task object, a frame
\* not yet created or destroyed by none; the source of a move construction
\* or move assignment is left invalid; a frame is destroyed at most once,
\* and is destroyed once no Task refers to it (move assignment destroys the
\* frame its target owned).
Owners(f) == {t \in TaskObjs : ostate[t] = "live" /\ coro_[t] = f}

C16_OneOwnerPerFrame ==
    /\ \A f \in Frames :
          /\ destroys[f] <= 1
          /\ (pc[f] = "destroyed") = (destroys[f] = 1)
          /\ Cardinality(Owners(f)) =
                 (IF pc[f] \in {"none", "destroyed"} THEN 0 ELSE 1)
    /\ \A t \in TaskObjs :
          (ostate[t] = "live" /\ movedFrom[t]) => coro_[t] = 0

\* A move assignment destroyed the frame its target owned and left the
\* source invalid, and the target now owns the source's frame.
C16_Witness ==
    \E t \in TaskObjs, u \in TaskObjs :
        /\ t \in Frames /\ ostate[t] = "live" /\ pc[t] = "destroyed"
        /\ coro_[t] # 0 /\ pc[coro_[t]] # "destroyed"
        /\ ostate[u] = "live" /\ movedFrom[u]

\* C17: sync_wait on a Task whose body suspends only by awaiting other Tasks
\* terminates and returns the composed result, and the whole chain runs to
\* completion within the first resume() call sync_wait makes.
RECURSIVE Expected(_)
Expected(f) ==
    IF ~body[f].awaits THEN OwnOutcomeOf(f, NoOutcome)
    ELSE LET c == Expected(Child(f)) IN
         IF c.kind = "error" /\ ~body[f].catches THEN c
         ELSE OwnOutcomeOf(f, c)

C17_SyncWaitCompletesChain ==
    /\ [](/\ swResumes <= 1
          /\ (sw # 0 /\ cur = 0 /\ swResumes = 1) => Done(sw)
          /\ (sw # 0 /\ swCalls = 1 /\ Done(sw)) => Result(sw) = Expected(sw))
    /\ (sw # 0) ~> (sw = 0)

\* The first sync_wait drove a chain of three bodies, each awaiting the
\* next, and returned the value composed along it.
C17_Witness ==
    /\ swCalls = 1
    /\ sw = 0
    /\ swResumes = 1
    /\ \A f \in Frames : f < MaxFrames => body[f].awaits
    /\ swResult[1] = ValueOutcome(MaxFrames + 10 * (MaxFrames - 1))

\* C18: while sync_wait drives a chain of nested Tasks, at most one resume()
\* call is active at any time, on the way down (co_await hands control to
\* the awaited Task) and on the way back (final suspension hands control to
\* the continuation): the depth does not grow with the length of the chain.
C18_BoundedResumeDepth ==
    /\ depth <= 1
    /\ cur # 0 => depth = 1
    /\ cur = 0 => depth = 0

\* One sync_wait went down a chain of three frames and back up: every frame
\* is done and the awaiting ones were each resumed by a final suspension.
C18_Witness ==
    /\ swCalls = 1
    /\ \A f \in Frames : Done(f)
    /\ \A f \in Frames : f < MaxFrames => resumer[f] = "final_suspend"

\* C19: calling a coroutine function runs no part of the body: the body's
\* first statement runs only once the frame was resumed (by sync_wait, by a
\* co_await from another coroutine, or by an executor's runner), and a Task
\* created and destroyed without being resumed never ran its body.
C19_BodyRunsOnlyWhenResumed ==
    \A f \in Frames :
        /\ bodyStarted[f] =>
              firstResumedBy[f] \in {"sync_wait", "await", "async_run"}
        /\ pc[f] \in {"none", "initial"} => ~bodyStarted[f]
        /\ (pc[f] = "destroyed" /\ firstResumedBy[f] = "none") =>
              ~bodyStarted[f]

\* One Task was destroyed without ever being resumed, one was started by a
\* co_await and one by async_run's runner.
C19_Witness ==
    \E f \in Frames, g \in Frames, h \in Frames :
        /\ pc[f] = "destroyed" /\ firstResumedBy[f] = "none"
        /\ bodyStarted[g] /\ firstResumedBy[g] = "await"
        /\ bodyStarted[h] /\ firstResumedBy[h] = "async_run"

\* C20: after fire_and_forget(task) the Task's frame is alive for as long as
\* a runner closure holding it is queued or held by a worker; once no such
\* closure remains (it ran and was destroyed, or submit turned it away) the
\* frame has been destroyed, exactly once; after shutdown has returned no
\* anchor is left.
AnchorHolders(a) ==
    {c \in Closures :
        /\ payload[c] = a
        /\ \/ c \in SeqToSet(task_queue_)
           \/ \E w \in Workers : wtask[w] = c}

C20_DetachedFrameLifetime ==
    \A a \in Anchors :
        (a <= nanchor /\ detached[a]) =>
            /\ refs[a] = Cardinality(AnchorHolders(a))
            /\ AnchorHolders(a) # {} =>
                  /\ taskpc[a] # "destroyed"
                  /\ frees[a] = 0
            /\ AnchorHolders(a) = {} =>
                  /\ taskpc[a] = "destroyed"
                  /\ frees[a] = 1
            /\ sdpc = "returned" => taskpc[a] = "destroyed"

\* The runner of a detached Task resumed it to completion on a worker and
\* was destroyed, and the pool was then shut down.
C20_Witness ==
    \E a \in Anchors :
        /\ detached[a]
        /\ bodyRuns[a] = 1
        /\ frees[a] = 1
        /\ sdpc = "returned"

\* C21: a closure that raises an error does not end its worker: the error
\* is swallowed, the worker goes back to its wait, no worker thread ends
\* before shutdown is requested, and every closure accepted by submit, those
\* submitted after the error included, is run to completion.
LiveWorkers == {w \in Workers : wpc[w] \notin {"exited", "terminated"}}

C21_ErrorDoesNotKillWorker ==
    /\ [](/\ \A w \in Workers : wpc[w] # "terminated"
          /\ ~stop_ => Cardinality(LiveWorkers) = NumWorkers
          /\ \A c \in Closures :
                (cthrows[c] /\ finishedBy[c] # 0) =>
                    /\ finishedBy[c] = startedBy[c]
                    /\ wtask[finishedBy[c]] # c)
    /\ \A c \in Closures : Accepted(c) ~> (finishedBy[c] # 0)

\* A worker ran a closure that raised, and then ran to completion a closure
\* submitted later, with every worker still alive.
C21_Witness ==
    \E c \in Closures, d \in Closures :
        /\ c < d
        /\ cthrows[c] /\ finishedBy[c] # 0
        /\ startedBy[d] = finishedBy[c]
        /\ finishedBy[d] = finishedBy[c]
        /\ ~stop_
        /\ Cardinality(LiveWorkers) = NumWorkers

\* Closures leave the queue in submission order (closure ids are given in
\* the order of the submit calls).
TakenInSubmissionOrder ==
    \A i \in 1..Len(started) : \A j \in 1..Len(started) :
        i < j => started[i] < started[j]

\* C22: for closures submitted by one producer, if C1 was submitted before
\* C2 then C1 is started before C2 is started, for any number of workers.
C22_StartedInSubmissionOrder ==
    \A i \in 1..Len(invoked) : \A j \in 1..Len(invoked) :
        i < j => invoked[i] < invoked[j]

\* C23: a continuation registered for read interest on a descriptor is not
\* enqueued, and not resumed by the loop, while no readiness condition has
\* occurred on the descriptor; the loop resumes a frame only from its queue;
\* and once a read-readiness or hang-up condition holds, the loop, as long
\* as it runs, enqueues the continuation and then resumes it.
Enqueued(f) ==
    \/ f \in SeqToSet(ready_queue_)
    \/ f \in SeqToSet(local_queue)

ReadRegistered(f) ==
    /\ fpos[f] = "awaiter"
    /\ [fd |-> sockfd[f], coro |-> f, events |-> ReadMask] \in handlers_

ReadReady(fd) == level[fd] \cap {"in", "hup"} # {}

C23_WakeOnlyOnReadiness ==
    /\ [](\A f \in IOFrames :
            (ReadRegistered(f) /\ ~ReadReady(sockfd[f])) =>
                /\ ~Enqueued(f)
                /\ inside[f]["reactor"] = "out")
    /\ [][\A f \in IOFrames :
            (inside[f]["reactor"] = "out" /\ inside'[f]["reactor"] # "out") =>
                /\ local_queue # <<>>
                /\ Head(local_queue) = f
                /\ ReadReady(sockfd[f])]_vars
    /\ \A f \in IOFrames :
          (ReadRegistered(f) /\ ReadReady(sockfd[f]))
              ~> (inside[f]["reactor"] # "out" \/ ~running_)

\* A frame waits registered with nothing to read while the loop polls, the
\* data arrives, and the loop resumes the frame.
C23_Witness ==
    \E f \in IOFrames :
        /\ inside[f]["reactor"] = "awaiter"
        /\ running_
        /\ nev = 1
        /\ \E g \in IOFrames : ReadRegistered(g) /\ ~ReadReady(sockfd[g])

\* C24: cancel_timer(id) is idempotent: a second cancel of the same id, a
\* cancel of an id whose timer has fired, and a cancel of an id that was
\* never issued leave the timer store as it is; a cancel never touches
\* another timer.
C24_CancelIdempotent ==
    \A id \in 0..MaxTimers :
        LET once == TimersErase(timers_, id) IN
        /\ TimersErase(once, id) = once
        /\ \A t \in timers_ : t.id # id => t \in once
        /\ once \subseteq timers_
        /\ (id \in cancelled \/ id \in SeqToSet(fired)
               \/ id >= next_timer_id_) =>
              once = timers_

\* The store holds a timer while another timer has fired, a third was
\* cancelled, and some id was never issued.
C24_Witness ==
    /\ timers_ # {}
    /\ fired # <<>>
    /\ cancelled # {}

\* C25: an AsyncSocket's descriptor is unregistered from the poller before
\* it is released, and is released exactly once: every open descriptor is
\* held by exactly one live AsyncSocket and a released one by none, ::close
\* is never called on a descriptor that is not open or that still has a
\* handler, no handler is left for a released descriptor, a moved-from
\* socket is not open, and a destroyed socket holds nothing.
SockOwners(fd) == {s \in Socks : sstate[s] = "live" /\ fd_[s] = fd}

SlotAccounting ==
    /\ ~deadDestroy
    /\ gdestroys <= gconstructs
    /\ gconstructs - gdestroys = (IF slotLive THEN 1 ELSE 0)
    /\ gpc = "destroyed" => gdestroys = gconstructs
    /\ gpc # "destroyed" => (value_ptr_ = "slot" <=> slotLive)

\* The same for element types whose move constructor does not raise.
SlotAccountingNothrow == ~gmoveThrows => SlotAccounting

\* C26: after any sequence of co_yields of lvalues and rvalues, followed by
\* completion or early destruction, every value move-constructed into the
\* promise's slot has been destroyed exactly once, never twice and never
\* leaked, and value_ptr_ points at the slot only while it holds a value.
C26_SlotDestroyedOnce == SlotAccounting

Yielded == [j \in 1..gidx |-> YieldedValue(j)]

\* The body has finished: a part of it ran that did not stop at a co_yield.
BodyFinished == ran > gidx

\* C28: iterating with begin, operator++ and comparison against end reads
\* exactly the values the body yielded, in yield order, each once; the
\* iterator equals end exactly when the body has finished; a body that
\* yields nothing gives an empty sequence.
C28_IterationYieldsValuesInOrder ==
    /\ \A j \in 1..Len(out) : \E i \in 1..gidx : out[j] = YieldedValue(i)
    /\ \A j, k \in 1..Len(out) : j < k => out[j] < out[k]
    /\ (it = "handle" /\ gpc = "yielded" /\ ~fresh)
          => (Len(out) > 0 /\ out[Len(out)] = YieldedValue(gidx))
    /\ (gpc = "final" /\ Len(out) = gidx) => out = Yielded
    /\ it = "handle" => (AtEnd <=> BodyFinished)
    /\ (it = "handle" /\ Len(gkinds) = 0) => (AtEnd /\ out = <<>>)

\* A body that yields an rvalue, an lvalue and an rvalue, iterated to the
\* end with every value read.
C28_Witness ==
    /\ gkinds = <<"r", "l", "r">>
    /\ ~gthrows
    /\ it = "handle"
    /\ AtEnd
    /\ out = <<YieldedValue(1), YieldedValue(2), YieldedValue(3)>>

\* C29: operator* on an iterator of a generator whose body has finished, or
\* on an end iterator, raises an error and reads no value.
C29_DerefPastEndRaises ==
    /\ derefOn \in {"end", "finished"}
          => (lastDeref = "error" /\ lastRead = 0)
    /\ derefOn = "live" => (lastDeref = "value" /\ lastRead # 0)

\* operator* was applied to the iterator of a generator that had yielded
\* two values and then finished.
C29_Witness ==
    /\ derefOn = "finished"
    /\ lastDeref = "error"
    /\ gpc = "final"
    /\ gidx = 2
    /\ Len(out) = 2

\* operator* was applied to end() while the generator held a value.
C29_WitnessEnd ==
    /\ derefOn = "end"
    /\ lastDeref = "error"
    /\ gpc = "yielded"

\* C30: a continuation registered once for a descriptor is enqueued at most
\* once: after a poll has delivered it, later readiness events on the same
\* descriptor do not enqueue it again unless the resumed code registers
\* again.
C30_EnqueuedAtMostOncePerRegistration ==
    \A fd \in Fds : delivered[fd] <= 1

\* The earliest deadline among the timers of a store.
EarliestDeadline(ts) ==
    CHOOSE d \in {t.expire_time : t \in ts} :
        \A t \in ts : d <= t.expire_time

\* max(0, earliest remaining deadline - now), or the default with no timer.
TimeoutToEarliest(ts, clock) ==
    IF ts = {} THEN DefaultTimeout
    ELSE IF EarliestDeadline(ts) - clock > 0
         THEN EarliestDeadline(ts) - clock
         ELSE 0

\* C31: after firing the expired timers, the poll timeout the loop computes
\* is max(0, earliest remaining deadline - now) over all remaining timers,
\* and the 100 ms default when no timer remains.
C31_TimeoutToEarliestDeadline ==
    [][(lpc = "fire" /\ lpc' = "poll")
          => next_timeout' = TimeoutToEarliest(timers_, tnow)]_vars

\* A thread is reading handlers_ (has, find) or writing it (operator[],
\* erase).
ReadsMap(t) == mpc[t] \in {"has", "find"}
WritesMap(t) == mpc[t] \in {"store", "erase"}

\* C32: handlers_ is never accessed by two threads at once: a register or
\* unregister call from a thread other than the Reactor's does not overlap
\* with the Reactor's lookup during poll, nor with another registration
\* call.
C32_HandlerMapNotShared ==
    \A t \in MapThreads \ {"reactor"} :
        WritesMap(t) =>
            /\ mpc["reactor"] # "find"
            /\ \A u \in MapThreads \ {"reactor", t} :
                   ~(ReadsMap(u) \/ WritesMap(u))

\* A frame suspended in its awaiter, registered for its descriptor and not
\* running on any thread.
WaitingOn(f, fd) ==
    /\ driver[f] = "schedule"
    /\ sockfd[f] = fd
    /\ sockOpen[fd]
    /\ fpos[f] = "awaiter"
    /\ \A t \in Threads : inside[f][t] = "out"

\* C33: continuations registered one after the other for the same
\* descriptor are both resumed as readiness is observed, the first before
\* the second: a poll that observes readiness of a descriptor enqueues every
\* continuation waiting on it whose interest the readiness meets.
C33_AllRegisteredResumed ==
    [][(lpc = "poll" /\ lpc' = "top" /\ running_)
          => \A f \in IOFrames : \A fd \in Fds :
                (/\ WaitingOn(f, fd)
                 /\ polledEvents'[fd] \cap (AwaiterMask(f) \cup {"hup"}) # {})
                    => SeqHolds(ready_queue_', f)]_vars

\* C34: when the multiplexer reports an unrecoverable error during poll,
\* the Reactor loop terminates and the Reactor is marked stopped
\* (is_running() is false afterwards); no registered continuation is resumed
\* as a result.
C34_PollErrorStopsReactor ==
    lpc = "thrown" =>
        /\ ~running_
        /\ \A f \in IOFrames : inside[f]["reactor"] = "out"

\* C35: when a poll reports error or hang-up for a descriptor, the Reactor
\* enqueues the pending continuation and removes the descriptor's entry from
\* its handler map, so that the descriptor is no longer registered
\* afterwards.
C35_HangupDeregisters ==
    [][(lpc = "poll" /\ lpc' = "top" /\ running_)
          => \A fd \in Fds :
                "hup" \in polledEvents'[fd]
                    => /\ \A h \in handlers_ :
                             h.fd = fd => SeqHolds(ready_queue_', h.coro)
                       /\ ~\E h \in handlers_' : h.fd = fd]_vars

\* The continuations waiting to be resumed, oldest first, and the number
\* already taken out of the queues.
Pending == local_queue \o ready_queue_
Taken == Len(enqLog) - Len(Pending)

\* C36: each continuation enqueued with schedule is taken by exactly one
\* drain of the ready queue; continuations are resumed in enqueue order,
\* null or already-done continuations are skipped, and a continuation
\* enqueued while a drain is in progress is resumed in a later loop
\* iteration and never lost, with schedule called from other threads.
C36_DrainTakesEachOnceInOrder ==
    /\ [](/\ Len(Pending) <= Len(enqLog)
          /\ SubSeq(enqLog, Taken + 1, Len(enqLog)) = Pending)
    /\ [][/\ (lpc = "top" /\ lpc' = "drain")
               => (local_queue' = ready_queue_ /\ ready_queue_' = <<>>)
          /\ (lpc = "drain" /\ local_queue' # local_queue)
               => /\ local_queue # <<>>
                  /\ local_queue' = Tail(local_queue)
                  /\ ready_queue_' = ready_queue_
                  /\ LET c == Head(local_queue) IN
                        IF c # 0 /\ fpos[c] # "final"
                        THEN inside'[c]["reactor"] # "out"
                        ELSE inside' = inside
          /\ Len(enqLog') > Len(enqLog)
               => (local_queue' = local_queue /\ lpc' = lpc)]_vars
    /\ \A n \in 1..MaxSchedules :
          (Len(enqLog) >= n) ~> (Taken >= n \/ ~running_)

\* Three schedule calls, of a suspended frame, a null handle and a finished
\* frame: all were taken, the first was resumed and is waiting on its
\* socket, the other two were skipped.
C36_Witness ==
    /\ enqLog = <<1, 0, 2>>
    /\ Pending = <<>>
    /\ running_
    /\ fpos[1] = "awaiter"
    /\ fpos[2] = "final"
    /\ \E h \in handlers_ : h.coro = 1

\* C37: no Task frame is resumed after it has reached its final suspension:
\* sync_wait, the fire_and_forget runner, Scheduler::schedule and the
\* Reactor's ready-queue drain each resume a frame only when it is not done,
\* in every interleaving of these drivers.
C37_NoResumeAfterFinal ==
    \A f \in IOFrames : ~resumedDone[f]

WriteNext ==
    \/ \E n \in 1..MaxWriteLen : WriteTakes(n)
    \/ WriteWouldBlock
    \/ WriteFails
    \/ WriteReturns
    \/ WriteResumed
    \/ \E k \in 1..MaxSpace : PeerReads(k)

InitWrite ==
    TaskIdle /\ PoolInit /\ LoopInit /\ IOIdle /\ SockIdle /\ GenIdle
        /\ MapIdle /\ DrainIdle /\ ResumeIdle /\ WriteInit /\ StopIdle
        /\ AgainIdle

SpecWrite == InitWrite /\ [][WriteNext]_vars

\* C38: AsyncSocket::write(data, len) completes only when all len bytes have
\* been written: the cursor advances by exactly the count each successful
\* write reports and never exceeds len, the task suspends for
\* write-readiness only after a would-block result, the returned count
\* equals len, and any other failure ends the task with an error.
C38_WriteCompletesWithAllBytes ==
    /\ total_written = accepted
    /\ total_written <= wlen
    /\ wrpc = "returned" => (accepted = wlen /\ wresult = wlen)
    /\ wrpc = "awaiting" => lastResult = "again"
    /\ everBlocked = FALSE => wrpc # "awaiting"
    /\ lastResult = "error" <=> wrpc = "thrown"

\* A write of more bytes than the buffer ever has room for: it was suspended
\* on a would-block, took the rest in several writes, and returned len.
C38_Witness ==
    /\ wrpc = "returned"
    /\ wlen = MaxWriteLen
    /\ everBlocked
    /\ wresult = MaxWriteLen

StopNext ==
    \/ \E delay \in 0..MaxDelay : AddTimer(delay)
    \/ Tick
    \/ Run
    \/ StopCall
    \/ LoopTop
    \/ ProcessTimers
    \/ FireTimer
    \/ ComputeTimeout
    \/ LoopPoll

SpecStop == InitTimer /\ [][StopNext]_vars /\ WF_vars(RunStep)

\* C39: after stop() has been called on the Reactor, run() returns after a
\* bounded number of loop iterations (resumed continuations and timer
\* callbacks return), whether stop() is called before run() has started,
\* while the loop is polling, or while it is dispatching.
C39_StopEndsRun ==
    (stopCalls > 0) ~> (lpc = "idle")

GenAgainNext ==
    \/ \E moveRaises \in BOOLEAN : GenCreate(moveRaises)
    \/ \E moveRaises \in BOOLEAN : GenBegin(moveRaises)
    \/ \E moveRaises \in BOOLEAN : GenBeginAgain(moveRaises)
    \/ \E moveRaises \in BOOLEAN : GenIncrement(moveRaises)
    \/ \E atEnd \in BOOLEAN : GenDeref(atEnd)
    \/ GenDestroy

SpecGenAgain == InitGen /\ [][GenAgainNext]_vars

\* C40: a Generator's frame is never resumed after its body has finished,
\* for any sequence of begin() and iterator-increment calls, including
\* calling begin() again on a generator that was already iterated to the
\* end.
C40_NoResumeAfterBodyFinished ==
    ~resumedFinished

====
